---- MODULE Spec2Model ----
(***************************************************************************)
(* Event-driven library system (src/03-event-driven/library_notification.py)*)
(* as a state machine: the message broker, the library service and the      *)
(* notification, analytics and audit services.                              *)
(*                                                                          *)
(* Every Python function is an operator from a "world" (the record of the   *)
(* module's global state) to the world it leaves behind, plus its return    *)
(* value; the actions apply these operators to the current state.           *)
(*   - uuid.uuid4() is a fresh number per kind of identifier (uuid_count);  *)
(*   - datetime.now() reads clock, counted in ticks of 1/TicksPerDay day;   *)
(*   - money is counted in cents;                                           *)
(*   - an optional value (None or x) is the sequence <<>> or <<x>>;         *)
(*   - a dict is a function, a missing key is a key outside its DOMAIN.     *)
(***************************************************************************)
EXTENDS Integers, Sequences, FiniteSets, TLC

\* ---------------------------------------------------------------- bounds
\* events the broker's callers emit in a run (the width of the event-id counter)
MaxEmits == 2
\* registrations the broker's callers have made at any time
MaxRegs == 2
\* the last tick the clock reaches
MaxClock == 1
\* borrowings the library's callers make and events their calls emit
MaxBorrowings == 2
MaxLibraryEmits == 6
\* events the library's callers leave in the queue before they drain it
MaxQueue == 1
\* borrowings the reader of a stocked library makes
MaxLoans == 6
\* successful library calls made while the services are wired
MaxSystemCalls == 3
\* payload objects a caller of emit_event builds, and the elements it appends
\* to the list inside one
MaxObjects == 1
MaxAppends == 1
\* snapshots taken in a run
MaxSnapshots == 1
\* clock ticks in a day
TicksPerDay == 2
\* days after the due date a reader brings a book back
MaxLateDays == 3
\* entries the audit service is given directly
MaxAudits == 3
\* tasks in the todo list
MaxTasks == 3
\* titles of the layered library and transactions it logs
MaxTitles == 2
MaxTransactions == 4

VARIABLES
    event_queue,       \* list of envelopes                        (line 56)
    event_handlers,    \* dict: event type -> list of registrations (line 57)
    failed_events,     \* list of FailedEvent records              (line 58)
    library_db,        \* books, users, borrowings                 (line 32)
    notification_db,   \* users, notifications, preferences        (line 38)
    analytics_db,      \* events, metrics, reports                 (line 44)
    audit_db,          \* events, snapshots                        (line 50)
    processed_events,  \* the list the test handler appends to     (line 865)
    uuid_count,        \* identifiers handed out so far, per kind
    clock,             \* the wall clock, in ticks
    heap,              \* the objects of a caller: payload dicts, lists inside them
    proc,              \* the position of the running process_events call
    invocations,       \* trace of the handler calls made since the last reset
    tasks,             \* 01-monolith/todo_manager.py: list of tasks (line 31)
    books_db,          \* 02-layered/library_management.py: dict of books (line 28)
    users_db,          \* 02-layered: dict user id -> borrowed book ids (line 29)
    transactions_db,   \* 02-layered: list of transactions         (line 30)
    proc2              \* the position of a second, concurrent process_events call

\* the globals of the event-driven module, of the monolith and of the layered
\* module: three programs that share nothing
EventDrivenVars ==
    <<event_queue, event_handlers, failed_events, library_db, notification_db,
      analytics_db, audit_db, processed_events, uuid_count, clock, heap,
      proc, invocations>>
MonolithVars == <<tasks>>
LayeredVars == <<books_db, users_db, transactions_db>>
\* a second thread of the event-driven module
ConcurrentVars == <<proc2>>

vars == <<event_queue, event_handlers, failed_events, library_db, notification_db,
          analytics_db, audit_db, processed_events, uuid_count, clock, heap,
          proc, invocations, tasks, books_db, users_db, transactions_db, proc2>>

\* ------------------------------------------------------------- primitives
None == <<>>
Some(x) == <<x>>
IsNone(o) == o = <<>>
Val(o) == o[1]

\* d.get(k, default)
Get(d, k, default) == IF k \in DOMAIN d THEN d[k] ELSE default

\* d[k] = v on a dict: adds the key or overwrites it
Put(d, k, v) == [x \in (DOMAIN d) \cup {k} |-> IF x = k THEN v ELSE d[x]]

EmptyDict == [x \in {} |-> 0]

\* the global state as one value
World ==
    [event_queue |-> event_queue, event_handlers |-> event_handlers,
     failed_events |-> failed_events, library_db |-> library_db,
     notification_db |-> notification_db, analytics_db |-> analytics_db,
     audit_db |-> audit_db, processed_events |-> processed_events,
     uuid_count |-> uuid_count, clock |-> clock, heap |-> heap]

\* the globals of the event-driven module become those of w
Assigns(w) ==
    /\ event_queue' = w.event_queue
    /\ event_handlers' = w.event_handlers
    /\ failed_events' = w.failed_events
    /\ library_db' = w.library_db
    /\ notification_db' = w.notification_db
    /\ analytics_db' = w.analytics_db
    /\ audit_db' = w.audit_db
    /\ processed_events' = w.processed_events
    /\ uuid_count' = w.uuid_count
    /\ clock' = w.clock
    /\ heap' = w.heap

\* the state w becomes the next state
Becomes(w) ==
    /\ Assigns(w)
    /\ UNCHANGED <<MonolithVars, LayeredVars, ConcurrentVars>>

\* str(uuid.uuid4()): the next unused identifier of a kind; identifiers of
\* different kinds never coincide
uuid4(w, kind) == <<kind, w.uuid_count[kind] + 1>>
Used(w, kind) == [w EXCEPT !.uuid_count[kind] = @ + 1]

\* the number a uuid was issued with: a later uuid of a kind has a larger one
Serial(id) == id[2]

\* datetime.now().isoformat()
datetime_now(w) == w.clock

\* a function's outcome: the world it leaves and what it returns
Ret(w, status, text) == [w |-> w, ret |-> [status |-> status, text |-> text]]

\* a handler's outcome: the world it leaves and the exception it raised, if any
Returns(w) == [w |-> w, raised |-> FALSE, error |-> ""]
Raises(w, e) == [w |-> w, raised |-> TRUE, error |-> e]

\* a handler already registered for the type is not registered again
register_event_handler_once(w, event_type, handler_func, service_name) ==
    LET hs == IF event_type \in DOMAIN w.event_handlers
              THEN w.event_handlers[event_type] ELSE <<>>
        reg == [handler |-> handler_func, service |-> service_name]
    IN IF \E k \in DOMAIN hs : hs[k] = reg THEN w
       ELSE [w EXCEPT !.event_handlers = Put(@, event_type, Append(hs, reg))]

\* ---------------------------------------------------------- message broker
register_event_handler(w, event_type, handler_func, service_name) ==
    LET hs == IF event_type \in DOMAIN w.event_handlers
              THEN w.event_handlers[event_type] ELSE <<>>
    IN [w EXCEPT !.event_handlers =
            Put(@, event_type,
                Append(hs, [handler |-> handler_func, service |-> service_name]))]

\* dict.copy(): a new dict with the items of d; an item that is a reference to
\* an object (a list, a dict) is the same reference in the copy
dict_copy(d) == [k \in DOMAIN d |-> d[k]]

emit_event_front(w, event_type, payload, correlation_id) ==
    LET auto == IsNone(correlation_id)
        corr == IF auto THEN uuid4(w, "correlation")
                ELSE Val(correlation_id)
        w1 == IF auto THEN Used(w, "correlation") ELSE w
        event == [event_id |-> uuid4(w1, "event"),
                  type |-> event_type,
                  payload |-> payload,
                  correlation_id |-> corr,
                  timestamp |-> datetime_now(w1),
                  retry_count |-> 0]
        w2 == Used(w1, "event")
    IN [w2 EXCEPT !.event_queue = <<event>> \o @]

emit_event(w, event_type, payload, correlation_id) ==
    LET auto == IsNone(correlation_id)
        corr == IF auto THEN uuid4(w, "correlation")
                ELSE Val(correlation_id)
        w1 == IF auto THEN Used(w, "correlation") ELSE w
        event == [event_id |-> uuid4(w1, "event"),
                  type |-> event_type,
                  payload |-> dict_copy(payload),
                  correlation_id |-> corr,
                  timestamp |-> datetime_now(w1),
                  retry_count |-> 0]
        w2 == Used(w1, "event")
    IN [w2 EXCEPT !.event_queue = Append(@, event)]

get_failed_events(w) == w.failed_events

\* the failure log is kept
clear_event_queue_keeping_failures(w) ==
    [w EXCEPT !.event_queue = <<>>, !.event_handlers = EmptyDict]

clear_event_queue(w) ==
    [w EXCEPT !.event_queue = <<>>, !.event_handlers = EmptyDict,
              !.failed_events = <<>>]

\* ---------------------------------------------------------- program constants
\* timedelta(days=14)
LoanDays == 14
\* $0.50 per day, in cents
LateFeePerDay == 50
PremiumLimit == 5
StandardLimit == 3
\* more than 5 borrows in one hour is an anomaly
RapidBorrowLimit == 5

\* ------------------------------------------------------------------ strings
\* A string whose characters the code looks at is the sequence of its
\* characters; "" is <<>>.
RECURSIVE lstrip(_)
lstrip(s) == IF s # <<>> /\ Head(s) = " " THEN lstrip(Tail(s)) ELSE s

RECURSIVE rstrip(_)
rstrip(s) ==
    IF s # <<>> /\ s[Len(s)] = " " THEN rstrip(SubSeq(s, 1, Len(s) - 1)) ELSE s

\* s.strip()
strip(s) == lstrip(rstrip(s))

\* c in s
Contains(s, c) == \E i \in DOMAIN s : s[i] = c

\* timestamp[:10], the date of an ISO timestamp
DateOf(t) == t \div TicksPerDay

\* the event of a notification goes to the head of the queue
send_notification_urgent(w, user_id, message, notification_type) ==
    LET notification_id == uuid4(w, "notification")
        w1 == Used(w, "notification")
        notification == [notification_id |-> notification_id,
                         user_id |-> user_id,
                         message |-> message,
                         type |-> notification_type,
                         sent_date |-> datetime_now(w1),
                         status |-> "sent"]
        w2 == [w1 EXCEPT !.notification_db.notifications = Append(@, notification)]
    IN emit_event_front(w2, "NotificationSent",
                        [notification_id |-> notification_id,
                         user_id |-> user_id,
                         type |-> notification_type,
                         sent_date |-> notification.sent_date],
                        None)

\* the notification is stored and no event tells of it
send_notification_unannounced(w, user_id, message, notification_type) ==
    LET notification_id == uuid4(w, "notification")
        w1 == Used(w, "notification")
        notification == [notification_id |-> notification_id,
                         user_id |-> user_id,
                         message |-> message,
                         type |-> notification_type,
                         sent_date |-> datetime_now(w1),
                         status |-> "sent"]
    IN [w1 EXCEPT !.notification_db.notifications = Append(@, notification)]

\* ------------------------------------------------------ notification service
send_notification(w, user_id, message, notification_type) ==
    LET notification_id == uuid4(w, "notification")
        w1 == Used(w, "notification")
        notification == [notification_id |-> notification_id,
                         user_id |-> user_id,
                         message |-> message,
                         type |-> notification_type,
                         sent_date |-> datetime_now(w1),
                         status |-> "sent"]
        w2 == [w1 EXCEPT !.notification_db.notifications = Append(@, notification)]
    IN emit_event(w2, "NotificationSent",
                  [notification_id |-> notification_id,
                   user_id |-> user_id,
                   type |-> notification_type,
                   sent_date |-> notification.sent_date],
                  None)

DefaultPreferences ==
    [email_enabled |-> TRUE, sms_enabled |-> FALSE, push_enabled |-> TRUE]

handle_user_registered_silently(w, payload) ==
    IF {"user_id", "name", "email"} \subseteq DOMAIN payload
    THEN Returns([w EXCEPT !.notification_db.users =
                     Put(@, payload.user_id,
                         [email |-> payload.email, name |-> payload.name,
                          preferences |-> DefaultPreferences])])
    ELSE Raises(w, "KeyError")

handle_user_registered(w, payload) ==
    IF "user_id" \notin DOMAIN payload THEN Raises(w, "'user_id'")
    ELSE IF "name" \notin DOMAIN payload THEN Raises(w, "'name'")
    ELSE IF "email" \notin DOMAIN payload THEN Raises(w, "'email'")
    ELSE
      LET w1 == [w EXCEPT !.notification_db.users =
                    Put(@, payload.user_id,
                        [email |-> payload.email, name |-> payload.name,
                         preferences |-> DefaultPreferences])]
      IN Returns(send_notification(w1, payload.user_id,
                     <<"Welcome to the library system", payload.name>>, "welcome"))

handle_book_borrowed(w, payload) ==
    IF "user_id" \notin DOMAIN payload THEN Raises(w, "'user_id'")
    ELSE IF "book_title" \notin DOMAIN payload THEN Raises(w, "'book_title'")
    ELSE IF "due_date" \notin DOMAIN payload THEN Raises(w, "'due_date'")
    ELSE
      LET w1 == send_notification(w, payload.user_id,
                    <<"You have successfully borrowed", payload.book_title,
                      "Due date", DateOf(payload.due_date)>>,
                    "borrow_confirmation")
      IN Returns(send_notification(w1, payload.user_id,
                     <<"Reminder", payload.book_title, "is due on",
                       DateOf(payload.due_date)>>,
                     "due_date_reminder"))

\* a late fee is told in a notification of its own
handle_book_returned_fee_notice(w, payload) ==
    IF "user_id" \notin DOMAIN payload THEN Raises(w, "'user_id'")
    ELSE IF "book_title" \notin DOMAIN payload THEN Raises(w, "'book_title'")
    ELSE
      LET late_fee == Get(payload, "late_fee", 0)
          return_message == <<"Thank you for returning", payload.book_title>>
          w1 == send_notification(w, payload.user_id, return_message,
                                  "return_confirmation")
      IN IF late_fee > 0
         THEN Returns(send_notification(w1, payload.user_id,
                                        <<"Late fee applied", late_fee>>, "late_fee"))
         ELSE Returns(w1)

handle_book_returned(w, payload) ==
    IF "user_id" \notin DOMAIN payload THEN Raises(w, "'user_id'")
    ELSE IF "book_title" \notin DOMAIN payload THEN Raises(w, "'book_title'")
    ELSE
      LET late_fee == Get(payload, "late_fee", 0)
          return_message == <<"Thank you for returning", payload.book_title>>
          message == IF late_fee > 0
                     THEN return_message \o <<"Late fee applied", late_fee>>
                     ELSE return_message
      IN Returns(send_notification(w, payload.user_id, message,
                                   "return_confirmation"))

get_user_notifications(w, user_id) ==
    SelectSeq(w.notification_db.notifications, LAMBDA n : n.user_id = user_id)

\* --------------------------------------------------------- analytics service
\* metrics[k] += d, the key created with 0 when missing
Increment(metrics, k, d) == Put(metrics, k, Get(metrics, k, 0) + d)

Record(w, type, payload) ==
    [w EXCEPT !.analytics_db.events =
        Append(@, [type |-> type, timestamp |-> datetime_now(w), data |-> payload])]

\* the borrowing is logged and its book counted, total_borrows is not
handle_book_borrowed_analytics_untotalled(w, payload) ==
    LET w1 == Record(w, "book_borrowed", payload)
    IN IF "book_id" \notin DOMAIN payload THEN Raises(w1, "'book_id'")
       ELSE
         LET popularity == Get(w1.analytics_db.metrics, "book_popularity", EmptyDict)
         IN Returns([w1 EXCEPT !.analytics_db.metrics =
                        Put(@, "book_popularity",
                            Increment(popularity, payload.book_id, 1))])

handle_book_borrowed_analytics(w, payload) ==
    LET w1 == Record(w, "book_borrowed", payload)
        w2 == [w1 EXCEPT !.analytics_db.metrics = Increment(@, "total_borrows", 1)]
    IN IF "book_id" \notin DOMAIN payload THEN Raises(w2, "'book_id'")
       ELSE
         LET popularity == Get(w2.analytics_db.metrics, "book_popularity", EmptyDict)
         IN Returns([w2 EXCEPT !.analytics_db.metrics =
                        Put(@, "book_popularity",
                            Increment(popularity, payload.book_id, 1))])

\* only a late return is counted
handle_book_returned_analytics_late_only(w, payload) ==
    LET w1 == Record(w, "book_returned", payload)
        late_fee == Get(payload, "late_fee", 0)
    IN IF late_fee > 0
       THEN Returns([w1 EXCEPT !.analytics_db.metrics =
                        Increment(Increment(@, "total_returns", 1),
                                  "total_late_fees", late_fee)])
       ELSE Returns(w1)

handle_book_returned_analytics(w, payload) ==
    LET w1 == Record(w, "book_returned", payload)
        w2 == [w1 EXCEPT !.analytics_db.metrics = Increment(@, "total_returns", 1)]
        late_fee == Get(payload, "late_fee", 0)
    IN IF late_fee > 0
       THEN Returns([w2 EXCEPT !.analytics_db.metrics =
                        Increment(@, "total_late_fees", late_fee)])
       ELSE Returns(w2)

handle_user_registered_analytics(w, payload) ==
    LET w1 == Record(w, "user_registered", payload)
        w2 == [w1 EXCEPT !.analytics_db.metrics = Increment(@, "total_users", 1)]
        user_type == Get(payload, "user_type", "standard")
        user_types == Get(w2.analytics_db.metrics, "user_types", EmptyDict)
    IN Returns([w2 EXCEPT !.analytics_db.metrics =
                   Put(@, "user_types", Increment(user_types, user_type, 1))])

\* ------------------------------------------------------------- audit service
handle_any_event_for_audit(w, event_type, payload, metadata) ==
    LET audit_event == [event_type |-> event_type,
                        payload |-> payload,
                        timestamp |-> Get(metadata, "timestamp", datetime_now(w)),
                        correlation_id |-> Get(metadata, "correlation_id", None),
                        event_id |-> Get(metadata, "event_id", None),
                        audit_logged_at |-> datetime_now(w)]
    IN Returns([w EXCEPT !.audit_db.events = Append(@, audit_event)])


\* d.copy() of a dict whose values are objects (dicts): a new dict with the keys
\* of d, each value the same object as in d. An object of a table is never
\* replaced under its key, so the key names the object.
copy_of_objects(table, d) == [k \in DOMAIN d |-> <<table, k>>]

\* the metrics that are dicts, changed in place by the analytics handlers
NestedMetrics == {"book_popularity", "user_types", "performance"}

\* analytics_db["metrics"].copy(): numbers are copied, a nested dict is shared
copy_of_metrics(metrics) ==
    [k \in DOMAIN metrics |->
        IF k \in NestedMetrics THEN <<"metrics", k>> ELSE metrics[k]]

\* The snapshot's copies are shallow. The objects of notification_db are
\* written once and only set_notification_preferences changes one in place, so
\* their copies are given by value.
create_system_snapshot(w) ==
    LET snapshot_id == uuid4(w, "snapshot")
        w1 == Used(w, "snapshot")
        snapshot ==
            [snapshot_id |-> snapshot_id,
             created_at |-> datetime_now(w1),
             library_state |->
                [books |-> copy_of_objects("books", w1.library_db.books),
                 users |-> copy_of_objects("users", w1.library_db.users),
                 borrowings |-> copy_of_objects("borrowings", w1.library_db.borrowings)],
             notification_state |->
                [users |-> w1.notification_db.users,
                 notifications |-> w1.notification_db.notifications,
                 preferences |-> w1.notification_db.preferences],
             analytics_state |->
                [metrics |-> copy_of_metrics(w1.analytics_db.metrics)]]
    IN [w |-> [w1 EXCEPT !.audit_db.snapshots = Put(@, snapshot_id, snapshot)],
        ret |-> snapshot_id]

\* what reading a stored snapshot yields in world w: each shared object as it
\* is now
read_snapshot(w, snapshot) ==
    [snapshot_id |-> snapshot.snapshot_id,
     created_at |-> snapshot.created_at,
     library_state |->
        [books |-> [k \in DOMAIN snapshot.library_state.books |->
                       w.library_db.books[k]],
         users |-> [k \in DOMAIN snapshot.library_state.users |->
                       w.library_db.users[k]],
         borrowings |-> [k \in DOMAIN snapshot.library_state.borrowings |->
                            w.library_db.borrowings[k]]],
     notification_state |-> snapshot.notification_state,
     analytics_state |->
        [metrics |-> [k \in DOMAIN snapshot.analytics_state.metrics |->
                         IF k \in NestedMetrics THEN w.analytics_db.metrics[k]
                         ELSE snapshot.analytics_state.metrics[k]]]]

\* ------------------------------------------------------------ library service
Values(d) == {d[k] : k \in DOMAIN d}

add_book_to_library(w, isbn, title, author, copies) ==
    IF isbn = <<>> \/ title = "" \/ author = ""
    THEN Ret(w, "error", "Error: ISBN, title, and author are required")
    ELSE IF copies <= 0
    THEN Ret(w, "error", "Error: Number of copies must be positive")
    ELSE IF \E book \in Values(w.library_db.books) : book.isbn = isbn
    THEN Ret(w, "error", "Error: Book with this ISBN already exists")
    ELSE
      LET book_id == uuid4(w, "book")
          w1 == Used(w, "book")
          book == [isbn |-> isbn, title |-> title, author |-> author,
                   total_copies |-> copies, available_copies |-> copies,
                   added_date |-> datetime_now(w1)]
          w2 == [w1 EXCEPT !.library_db.books = Put(@, book_id, book)]
          w3 == emit_event(w2, "BookAdded",
                           [book_id |-> book_id, isbn |-> isbn, title |-> title,
                            author |-> author, copies |-> copies],
                           None)
      IN Ret(w3, "ok", "added successfully")

borrowing_limit(user_type) ==
    IF user_type = "premium" THEN PremiumLimit ELSE StandardLimit

\* the duplicate check: some stored user has the address
email_taken_never(w, email) == FALSE
email_taken(w, email) == \E user \in Values(w.library_db.users) : user.email = email

\* the user is stored and no event tells of it
store_user_silent(w, email, name, user_type) ==
    LET user_id == uuid4(w, "user")
        w1 == Used(w, "user")
        user == [email |-> email, name |-> strip(name), user_type |-> user_type,
                 status |-> "active", registered_date |-> datetime_now(w1),
                 borrowing_limit |-> borrowing_limit(user_type)]
    IN [w1 EXCEPT !.library_db.users = Put(@, user_id, user)]

\* the user is created and stored, UserRegistered is emitted
store_user(w, email, name, user_type) ==
    LET user_id == uuid4(w, "user")
        w1 == Used(w, "user")
        user == [email |-> email, name |-> strip(name), user_type |-> user_type,
                 status |-> "active", registered_date |-> datetime_now(w1),
                 borrowing_limit |-> borrowing_limit(user_type)]
        w2 == [w1 EXCEPT !.library_db.users = Put(@, user_id, user)]
    IN emit_event(w2, "UserRegistered",
                  [user_id |-> user_id, email |-> email, name |-> name,
                   user_type |-> user_type],
                  None)

register_user_store_first(w, email, name, user_type) ==
    IF email = <<>> \/ ~Contains(email, "@")
    THEN Ret(w, "error", "Error: Valid email address is required")
    ELSE IF name = <<>> \/ strip(name) = <<>>
    THEN Ret(w, "error", "Error: User name is required")
    ELSE IF email_taken(w, email)
    THEN Ret(store_user(w, email, name, user_type), "error",
             "Error: User with this email already exists")
    ELSE Ret(store_user(w, email, name, user_type), "ok", "registered successfully")

register_user(w, email, name, user_type) ==
    IF email = <<>> \/ ~Contains(email, "@")
    THEN Ret(w, "error", "Error: Valid email address is required")
    ELSE IF name = <<>> \/ strip(name) = <<>>
    THEN Ret(w, "error", "Error: User name is required")
    ELSE IF email_taken(w, email)
    THEN Ret(w, "error", "Error: User with this email already exists")
    ELSE Ret(store_user(w, email, name, user_type), "ok", "registered successfully")

\* the ids of the user's borrowings with returned_date None
current_borrowings(w, user_id) ==
    {bid \in DOMAIN w.library_db.borrowings :
        /\ w.library_db.borrowings[bid].user_id = user_id
        /\ IsNone(w.library_db.borrowings[bid].returned_date)}

\* book["available_copies"] <= 0
not_available_below_zero(book) == book.available_copies < 0
not_available(book) == book.available_copies <= 0

\* len(current_borrowings) >= user["borrowing_limit"]
limit_reached_above(count, limit) == count > limit
limit_reached(count, limit) == count >= limit

\* the loop over current_borrowings looking for the book
already_borrowed_never(w, user_id, book_id) == FALSE
already_borrowed(w, user_id, book_id) ==
    \E bid \in current_borrowings(w, user_id) :
       w.library_db.borrowings[bid].book_id = book_id

\* book["available_copies"] -= 1 and += 1
take_copy_forgotten(book) == book
take_copy(book) == [book EXCEPT !.available_copies = @ - 1]
give_copy_forgotten(book) == book
give_copy(book) == [book EXCEPT !.available_copies = @ + 1]

\* every account may borrow
not_active_never(user) == FALSE

\* user["status"] != "active"
not_active(user) == user.status # "active"

borrow_book(w, user_id, book_id) ==
    IF user_id \notin DOMAIN w.library_db.users
    THEN Ret(w, "error", "Error: User not found")
    ELSE IF not_active(w.library_db.users[user_id])
    THEN Ret(w, "error", "Error: User account is not active")
    ELSE IF book_id \notin DOMAIN w.library_db.books
    THEN Ret(w, "error", "Error: Book not found")
    ELSE IF not_available(w.library_db.books[book_id])
    THEN Ret(w, "error", "Error: Book is not available for borrowing")
    ELSE IF limit_reached(Cardinality(current_borrowings(w, user_id)),
                          w.library_db.users[user_id].borrowing_limit)
    THEN Ret(w, "error", "Error: User has reached borrowing limit")
    ELSE IF already_borrowed(w, user_id, book_id)
    THEN Ret(w, "error", "Error: User has already borrowed this book")
    ELSE
      LET user == w.library_db.users[user_id]
          book == w.library_db.books[book_id]
          borrowing_id == uuid4(w, "borrowing")
          w1 == Used(w, "borrowing")
          due_date == datetime_now(w1) + LoanDays * TicksPerDay
          borrowing == [user_id |-> user_id, book_id |-> book_id,
                        borrowed_date |-> datetime_now(w1),
                        due_date |-> due_date,
                        returned_date |-> None,
                        late_fee |-> 0]
          w2 == [w1 EXCEPT !.library_db.borrowings = Put(@, borrowing_id, borrowing)]
          w3 == [w2 EXCEPT !.library_db.books[book_id] = take_copy(@)]
          w4 == emit_event(w3, "BookBorrowed",
                           [user_id |-> user_id, book_id |-> book_id,
                            book_title |-> book.title,
                            borrowing_id |-> borrowing_id,
                            borrowed_date |-> borrowing.borrowed_date,
                            due_date |-> borrowing.due_date,
                            user_name |-> user.name, user_email |-> user.email],
                           None)
      IN Ret(w4, "ok", "borrowed successfully")

\* the search finds the borrowings of active users only
matching_borrowings_of_active(w, user_id, book_id) ==
    {bid \in DOMAIN w.library_db.borrowings :
        /\ w.library_db.borrowings[bid].user_id = user_id
        /\ w.library_db.borrowings[bid].book_id = book_id
        /\ IsNone(w.library_db.borrowings[bid].returned_date)
        /\ user_id \in DOMAIN w.library_db.users
        /\ w.library_db.users[user_id].status = "active"}

\* the search also takes the borrowings that came back
matching_borrowings_any(w, user_id, book_id) ==
    {bid \in DOMAIN w.library_db.borrowings :
        /\ w.library_db.borrowings[bid].user_id = user_id
        /\ w.library_db.borrowings[bid].book_id = book_id}

\* the open borrowings of the book by the user, in the dict's (insertion) order
matching_borrowings(w, user_id, book_id) ==
    {bid \in DOMAIN w.library_db.borrowings :
        /\ w.library_db.borrowings[bid].user_id = user_id
        /\ w.library_db.borrowings[bid].book_id = book_id
        /\ IsNone(w.library_db.borrowings[bid].returned_date)}

\* a day begun counts as a day
days_late_begun(return_date, due_date) ==
    (return_date - due_date + TicksPerDay - 1) \div TicksPerDay

\* (return_date - due_date).days, of a positive difference: the whole days in it
days_late(return_date, due_date) == (return_date - due_date) \div TicksPerDay

return_book(w, user_id, book_id) ==
    LET found == matching_borrowings(w, user_id, book_id)
    IN IF found = {}
       THEN Ret(w, "error", "Error: Book not borrowed by this user")
       ELSE
         LET borrowing_id == CHOOSE bid \in found :
                                \A other \in found : bid[2] <= other[2]
             borrowing_record == w.library_db.borrowings[borrowing_id]
             book == w.library_db.books[book_id]
             user == w.library_db.users[user_id]
             return_date == datetime_now(w)
             due_date == borrowing_record.due_date
             late_fee == IF return_date > due_date
                         THEN days_late(return_date, due_date) * LateFeePerDay
                         ELSE 0
             w1 == [w EXCEPT !.library_db.borrowings[borrowing_id] =
                       [@ EXCEPT !.returned_date = Some(return_date),
                                 !.late_fee = late_fee]]
             w2 == [w1 EXCEPT !.library_db.books[book_id] = give_copy(@)]
             w3 == emit_event(w2, "BookReturned",
                              [user_id |-> user_id, book_id |-> book_id,
                               book_title |-> book.title,
                               borrowing_id |-> borrowing_id,
                               returned_date |-> return_date,
                               late_fee |-> late_fee,
                               user_name |-> user.name, user_email |-> user.email],
                              None)
         IN Ret(w3, "ok", "returned successfully")

get_user_borrowings(w, user_id) ==
    {[borrowing |-> w.library_db.borrowings[bid],
      book_title |-> w.library_db.books[w.library_db.borrowings[bid].book_id].title,
      book_author |-> w.library_db.books[w.library_db.borrowings[bid].book_id].author] :
        bid \in current_borrowings(w, user_id)}

suspend_user(w, user_id, reason) ==
    IF user_id \notin DOMAIN w.library_db.users
    THEN Ret(w, "error", "Error: User not found")
    ELSE
      LET suspended_date == datetime_now(w)
          user == Put(Put(Put(w.library_db.users[user_id], "status", "suspended"),
                          "suspension_reason", reason),
                      "suspended_date", suspended_date)
          w1 == [w EXCEPT !.library_db.users[user_id] = user]
          w2 == emit_event(w1, "UserSuspended",
                           [user_id |-> user_id, reason |-> reason,
                            suspended_date |-> suspended_date,
                            user_name |-> user.name, user_email |-> user.email],
                           None)
      IN Ret(w2, "ok", "suspended")

\* ------------------------------------------------------ system initialization
NotificationHandlers ==
    <<<<"UserRegistered", "handle_user_registered">>,
      <<"BookBorrowed", "handle_book_borrowed">>,
      <<"BookReturned", "handle_book_returned">>>>

AnalyticsHandlers ==
    <<<<"BookBorrowed", "handle_book_borrowed_analytics">>,
      <<"BookReturned", "handle_book_returned_analytics">>,
      <<"UserRegistered", "handle_user_registered_analytics">>>>

AuditedEventTypes ==
    <<"BookAdded", "BookBorrowed", "BookReturned", "UserRegistered",
      "UserSuspended", "NotificationSent">>

RECURSIVE RegisterAll(_, _, _)
RegisterAll(w, regs, service_name) ==
    IF regs = <<>> THEN w
    ELSE RegisterAll(register_event_handler(w, Head(regs)[1], Head(regs)[2],
                                            service_name),
                     Tail(regs), service_name)

initialize_without_notification_audit(w) ==
    LET w1 == clear_event_queue(w)
        w2 == RegisterAll(w1, NotificationHandlers, "NotificationService")
        w3 == RegisterAll(w2, AnalyticsHandlers, "AnalyticsService")
    IN RegisterAll(w3,
                   [i \in 1..(Len(AuditedEventTypes) - 1) |->
                       <<AuditedEventTypes[i], "handle_any_event_for_audit">>],
                   "AuditService")

\* the services are wired on the broker as it is
initialize_keeping_broker(w) ==
    LET w2 == RegisterAll(w, NotificationHandlers, "NotificationService")
        w3 == RegisterAll(w2, AnalyticsHandlers, "AnalyticsService")
    IN RegisterAll(w3,
                   [i \in DOMAIN AuditedEventTypes |->
                       <<AuditedEventTypes[i], "handle_any_event_for_audit">>],
                   "AuditService")

initialize_event_driven_system(w) ==
    LET w1 == clear_event_queue(w)
        w2 == RegisterAll(w1, NotificationHandlers, "NotificationService")
        w3 == RegisterAll(w2, AnalyticsHandlers, "AnalyticsService")
    IN RegisterAll(w3,
                   [i \in DOMAIN AuditedEventTypes |->
                       <<AuditedEventTypes[i], "handle_any_event_for_audit">>],
                   "AuditService")

\* the borrowings outlive the books and users
clear_all_but_borrowings(w) ==
    clear_event_queue(
        [w EXCEPT !.library_db = [books |-> EmptyDict, users |-> EmptyDict,
                                  borrowings |-> @.borrowings],
                  !.notification_db = [users |-> EmptyDict, notifications |-> <<>>,
                                       preferences |-> EmptyDict],
                  !.analytics_db = [events |-> <<>>, metrics |-> EmptyDict,
                                    reports |-> EmptyDict],
                  !.audit_db = [events |-> <<>>, snapshots |-> EmptyDict]])

clear_all_system_state(w) ==
    clear_event_queue(
        [w EXCEPT !.library_db = [books |-> EmptyDict, users |-> EmptyDict,
                                  borrowings |-> EmptyDict],
                  !.notification_db = [users |-> EmptyDict, notifications |-> <<>>,
                                       preferences |-> EmptyDict],
                  !.analytics_db = [events |-> <<>>, metrics |-> EmptyDict,
                                    reports |-> EmptyDict],
                  !.audit_db = [events |-> <<>>, snapshots |-> EmptyDict]])


\* ------------------------------------------------------------- process_events
\* the functions a registration may refer to, by name; the handlers of the
\* services and the two handlers of the broker's tests
Arity(handler) == IF handler = "handle_any_event_for_audit" THEN 3 ELSE 1

\* handler(payload)
CallWithPayload(w, handler, payload) ==
    CASE handler = "handle_user_registered" -> handle_user_registered(w, payload)
      [] handler = "handle_book_borrowed" -> handle_book_borrowed(w, payload)
      [] handler = "handle_book_returned" -> handle_book_returned(w, payload)
      [] handler = "handle_book_borrowed_analytics" ->
            handle_book_borrowed_analytics(w, payload)
      [] handler = "handle_book_returned_analytics" ->
            handle_book_returned_analytics(w, payload)
      [] handler = "handle_user_registered_analytics" ->
            handle_user_registered_analytics(w, payload)
      [] handler = "test_handler" ->
            Returns([w EXCEPT !.processed_events = Append(@, payload)])
      [] handler = "failing_handler" -> Raises(w, "Handler failed")
      [] OTHER -> Raises(w, "TypeError: missing positional arguments")

\* handler(event_type, payload, metadata)
CallWithMetadata(w, handler, event_type, payload, metadata) ==
    IF Arity(handler) = 3
    THEN handle_any_event_for_audit(w, event_type, payload, metadata)
    ELSE Raises(w, "TypeError: takes 1 positional argument but 3 were given")

\* the body of the try block: the call, with the arguments the owning service's
\* name selects
call_handler(w, handler_info, event) ==
    IF handler_info.service = "AuditService"
    THEN CallWithMetadata(w, handler_info.handler, event.type, event.payload,
                          [timestamp |-> event.timestamp,
                           correlation_id |-> event.correlation_id,
                           event_id |-> event.event_id])
    ELSE CallWithPayload(w, handler_info.handler, event.payload)

run_handler_silent(w, handler_info, event) == call_handler(w, handler_info, event).w

run_handler_retrying(w, handler_info, event) ==
    LET r == call_handler(w, handler_info, event)
    IN IF r.raised
       THEN [r.w EXCEPT !.failed_events =
                Append(@, [original_event |-> event,
                           error |-> r.error,
                           failed_at |-> datetime_now(r.w),
                           handler_service |-> handler_info.service]),
                        !.event_queue =
                Append(@, [event EXCEPT !.retry_count = @ + 1])]
       ELSE r.w

\* the try/except around one handler: the world after it
run_handler(w, handler_info, event) ==
    LET r == call_handler(w, handler_info, event)
    IN IF r.raised
       THEN [r.w EXCEPT !.failed_events =
                Append(@, [original_event |-> event,
                           error |-> r.error,
                           failed_at |-> datetime_now(r.w),
                           handler_service |-> handler_info.service])]
       ELSE r.w

more_to_process_inclusive(w, p) ==
    /\ w.event_queue # <<>>
    /\ (IsNone(p.max_events) \/ p.processed_count <= Val(p.max_events))

\* the loop ends after the first event
more_to_process_once(w, p) ==
    /\ w.event_queue # <<>>
    /\ p.processed_count < 1

\* the while condition
more_to_process(w, p) ==
    /\ w.event_queue # <<>>
    /\ (IsNone(p.max_events) \/ p.processed_count < Val(p.max_events))

\* event_queue.pop(0): the position in the queue of the event taken
pop_index_last(queue) == Len(queue)
\* the event behind the head of the queue is taken when there is one
pop_index_second(queue) == IF Len(queue) > 1 THEN 2 ELSE 1

pop_index(queue) == 1

RemoveAt(q, i) == SubSeq(q, 1, i - 1) \o SubSeq(q, i + 1, Len(q))

after_handler_aborting(p, raised, n) ==
    IF p.i < n /\ ~raised THEN [p EXCEPT !.i = @ + 1]
    ELSE [p EXCEPT !.pc = "loop", !.event = None, !.i = 0]

\* where the loop stands after the handler at p.i of n handlers ran
after_handler(p, raised, n) ==
    IF p.i < n THEN [p EXCEPT !.i = @ + 1]
    ELSE [p EXCEPT !.pc = "loop", !.event = None, !.i = 0]

Idle == [pc |-> "idle", max_events |-> None, processed_count |-> 0,
         event |-> None, i |-> 0]

\* a second caller of process_events, with the positions in the trace of the
\* handler calls it made
Idle2 == [pc |-> "idle", max_events |-> None, processed_count |-> 0,
          event |-> None, i |-> 0, ran |-> {}]


\* ======================================================= 01-monolith: todo
\* the functions of todo_manager.py on the global list tasks: each operator is
\* the list after the call
get_task_by_id(list, task_id) ==
    LET found == {k \in DOMAIN list : list[k].id = task_id}
    IN IF found = {} THEN None
       ELSE Some(CHOOSE k \in found : \A other \in found : k <= other)

add_task(list, description, priority) ==
    LET task_id == Len(list) + 1
    IN Append(list, [id |-> task_id, description |-> description,
                     priority |-> priority, completed |-> FALSE])

mark_task_done(list, task_id) ==
    LET task == get_task_by_id(list, task_id)
    IN IF IsNone(task) THEN list
       ELSE IF list[Val(task)].completed THEN list
       ELSE [list EXCEPT ![Val(task)].completed = TRUE]

remove_task(list, task_id) == SelectSeq(list, LAMBDA task : task.id # task_id)

clear_all_tasks(list) == <<>>

\* ================================================ 02-layered: library system
\* the globals of library_management.py as one value, with the clock read by
\* datetime.now()
Layered ==
    [books_db |-> books_db, users_db |-> users_db,
     transactions_db |-> transactions_db, clock |-> clock]

\* -- data access layer
get_all_books(l) == l.books_db

get_book_by_id(l, book_id) ==
    IF book_id \in DOMAIN l.books_db THEN Some(l.books_db[book_id]) ELSE None

save_book(l, book_id, book_data) ==
    [l EXCEPT !.books_db = Put(@, book_id, book_data)]

get_user_borrowed_books(l, user_id) == Get(l.users_db, user_id, <<>>)

save_user_borrowed_book(l, user_id, book_id) ==
    LET books == Get(l.users_db, user_id, <<>>)
    IN [l EXCEPT !.users_db =
           Put(@, user_id,
               IF \E k \in DOMAIN books : books[k] = book_id THEN books
               ELSE Append(books, book_id))]

\* the whole list is dropped
remove_user_borrowed_book_all(l, user_id, book_id) ==
    IF user_id \in DOMAIN l.users_db
          /\ \E k \in DOMAIN l.users_db[user_id] : l.users_db[user_id][k] = book_id
    THEN [l EXCEPT !.users_db[user_id] = <<>>]
    ELSE l

\* list.remove(book_id): the first occurrence is taken out
remove_user_borrowed_book(l, user_id, book_id) ==
    IF user_id \in DOMAIN l.users_db
          /\ \E k \in DOMAIN l.users_db[user_id] : l.users_db[user_id][k] = book_id
    THEN LET books == l.users_db[user_id]
             first == CHOOSE k \in DOMAIN books :
                         /\ books[k] = book_id
                         /\ \A j \in 1..(k - 1) : books[j] # book_id
         IN [l EXCEPT !.users_db[user_id] = RemoveAt(books, first)]
    ELSE l

log_transaction(l, user_id, book_id, action, timestamp) ==
    [l EXCEPT !.transactions_db =
        Append(@, [user_id |-> user_id, book_id |-> book_id, action |-> action,
                   timestamp |-> timestamp])]

\* -- business logic layer
\* max(all_books.keys()) + 1 if all_books else 1
next_book_id(all_books) ==
    IF DOMAIN all_books = {} THEN 1
    ELSE (CHOOSE k \in DOMAIN all_books : \A j \in DOMAIN all_books : j <= k) + 1

add_book_to_library_layered(l, title, author, isbn, copies) ==
    IF strip(title) = <<>> THEN Ret(l, "error", "Error: Book title cannot be empty")
    ELSE IF strip(author) = <<>>
    THEN Ret(l, "error", "Error: Book author cannot be empty")
    ELSE IF copies <= 0
    THEN Ret(l, "error", "Error: Number of copies must be positive")
    ELSE LET book_id == next_book_id(get_all_books(l))
             book_data == [title |-> strip(title), author |-> strip(author),
                           isbn |-> isbn, total_copies |-> copies,
                           available_copies |-> copies]
         IN Ret(save_book(l, book_id, book_data), "ok", "added successfully")

is_book_available_for_borrowing(l, book_id) ==
    LET book == get_book_by_id(l, book_id)
    IN ~IsNone(book) /\ Get(Val(book), "available_copies", 0) > 0

borrow_book_workflow(l, user_id, book_id) ==
    IF ~is_book_available_for_borrowing(l, book_id)
    THEN Ret(l, "error", "Error: Book is not available for borrowing")
    ELSE IF \E k \in DOMAIN get_user_borrowed_books(l, user_id) :
               get_user_borrowed_books(l, user_id)[k] = book_id
    THEN Ret(l, "error", "Error: You have already borrowed this book")
    ELSE LET book == Val(get_book_by_id(l, book_id))
             taken == [book EXCEPT !.available_copies = @ - 1]
             l1 == save_book(l, book_id, taken)
             l2 == save_user_borrowed_book(l1, user_id, book_id)
             l3 == log_transaction(l2, user_id, book_id, "borrow", l.clock)
         IN Ret(l3, "ok", "borrowed successfully")

return_book_workflow(l, user_id, book_id) ==
    IF ~\E k \in DOMAIN get_user_borrowed_books(l, user_id) :
            get_user_borrowed_books(l, user_id)[k] = book_id
    THEN Ret(l, "error", "Error: You have not borrowed this book")
    ELSE IF IsNone(get_book_by_id(l, book_id))
    THEN Ret(l, "error", "Error: Book not found in system")
    ELSE LET book == Val(get_book_by_id(l, book_id))
             given == [book EXCEPT !.available_copies = @ + 1]
             l1 == save_book(l, book_id, given)
             l2 == remove_user_borrowed_book(l1, user_id, book_id)
             l3 == log_transaction(l2, user_id, book_id, "return", l.clock)
         IN Ret(l3, "ok", "returned successfully")

\* ------------------------------------------------------------------- states
EmptyWorld ==
    [event_queue |-> <<>>, event_handlers |-> EmptyDict, failed_events |-> <<>>,
     library_db |-> [books |-> EmptyDict, users |-> EmptyDict,
                     borrowings |-> EmptyDict],
     notification_db |-> [users |-> EmptyDict, notifications |-> <<>>,
                          preferences |-> EmptyDict],
     analytics_db |-> [events |-> <<>>, metrics |-> EmptyDict, reports |-> EmptyDict],
     audit_db |-> [events |-> <<>>, snapshots |-> EmptyDict],
     processed_events |-> <<>>,
     uuid_count |-> [k \in {"event", "correlation", "book", "user", "borrowing",
                            "notification", "snapshot"} |-> 0],
     clock |-> 0,
     heap |-> [dicts |-> EmptyDict, lists |-> EmptyDict]]

Starts(w) ==
    /\ event_queue = w.event_queue
    /\ event_handlers = w.event_handlers
    /\ failed_events = w.failed_events
    /\ library_db = w.library_db
    /\ notification_db = w.notification_db
    /\ analytics_db = w.analytics_db
    /\ audit_db = w.audit_db
    /\ processed_events = w.processed_events
    /\ uuid_count = w.uuid_count
    /\ clock = w.clock
    /\ heap = w.heap
    /\ proc = Idle
    /\ invocations = <<>>
    /\ tasks = <<>>
    /\ books_db = EmptyDict
    /\ users_db = EmptyDict
    /\ transactions_db = <<>>
    /\ proc2 = Idle2

\* the module as imported: the globals of lines 32-58
Init == Starts(EmptyWorld)

\* ------------------------------------------------------------------ reports
\* Both functions below read the globals and assign none: the world after the
\* call is the world before it, and the operator is the value returned.

\* a timestamp is the tick it denotes; fromisoformat reads back the instant
\* isoformat wrote
in_range(start_dt, event_dt, end_dt) == start_dt <= event_dt /\ event_dt <= end_dt

period_until_now(w, start_date, end_date) == <<start_date, datetime_now(w)>>

\* f"{start_date} to {end_date}"
period_of(w, start_date, end_date) == <<start_date, end_date>>

generate_usage_report(w, start_date, end_date) ==
    LET filtered_events ==
            SelectSeq(w.analytics_db.events,
                      LAMBDA event : in_range(start_date, event.timestamp, end_date))
        of_type(type) == SelectSeq(filtered_events, LAMBDA e : e.type = type)
    IN [period |-> period_of(w, start_date, end_date),
        total_borrows |-> Len(of_type("book_borrowed")),
        total_returns |-> Len(of_type("book_returned")),
        active_users |->
            Cardinality({filtered_events[i].data.user_id :
                            i \in {j \in DOMAIN filtered_events :
                                      "user_id" \in DOMAIN filtered_events[j].data}}),
        popular_books |-> Get(w.analytics_db.metrics, "book_popularity", EmptyDict),
        generated_at |-> datetime_now(w)]

\* list.sort(key=timestamp): stable, entries of one timestamp keep their order
RECURSIVE sort_by_timestamp(_)
\* entries of one timestamp come out last logged first
RECURSIVE sort_by_timestamp_unstable(_)
sort_by_timestamp_unstable(trail) ==
    IF trail = <<>> THEN <<>>
    ELSE LET e == Head(trail)
             rest == sort_by_timestamp_unstable(Tail(trail))
         IN SelectSeq(rest, LAMBDA x : x.timestamp <= e.timestamp)
                \o <<e>>
                \o SelectSeq(rest, LAMBDA x : x.timestamp > e.timestamp)

sort_by_timestamp(trail) ==
    IF trail = <<>> THEN <<>>
    ELSE LET e == Head(trail)
             rest == sort_by_timestamp(Tail(trail))
         IN SelectSeq(rest, LAMBDA x : x.timestamp < e.timestamp)
                \o <<e>>
                \o SelectSeq(rest, LAMBDA x : x.timestamp >= e.timestamp)

get_audit_trail(w, entity_type, entity_id) ==
    LET relates(event) ==
            \/ entity_type = "user"
                  /\ Get(event.payload, "user_id", None) = entity_id
            \/ entity_type = "book"
                  /\ Get(event.payload, "book_id", None) = entity_id
    IN sort_by_timestamp(SelectSeq(w.audit_db.events, relates))

\* the state every service test starts in (setUp): all state cleared, then the
\* handlers of the three services registered
InitSystem == Starts(initialize_event_driven_system(clear_all_system_state(EmptyWorld)))

\* ------------------------------------------------------------------ actions
\* Calls are made by one thread: none starts while process_events is running.
Calling == proc.pc = "idle"

Tick ==
    /\ Calling
    /\ clock < MaxClock
    /\ clock' = clock + 1
    /\ UNCHANGED <<event_queue, event_handlers, failed_events, library_db,
                   notification_db, analytics_db, audit_db, processed_events,
                   uuid_count, heap, proc, invocations>>
    /\ UNCHANGED <<MonolithVars, LayeredVars, ConcurrentVars>>

\* -- broker
\* the event types, handlers and service names of the broker's tests
EventTypes == {"ProcessTest", "FailTest"}
TestRegistrations ==
    {<<"test_handler", "TestService">>, <<"failing_handler", "TestService2">>,
     <<"test_handler", "AuditService">>}
Payloads == {[data |-> "process_me"]}
\* a correlation id the caller passes is an id no uuid4() call returns
CorrelationIds == {None, Some(<<"correlation", 0>>)}

RECURSIVE SumLen(_, _)
SumLen(d, keys) ==
    IF keys = {} THEN 0
    ELSE LET k == CHOOSE x \in keys : TRUE
         IN Len(d[k]) + SumLen(d, keys \ {k})

\* len of all lists of event_handlers together
Registered == SumLen(event_handlers, DOMAIN event_handlers)

RegisterEventHandler ==
    /\ Calling
    /\ Registered < MaxRegs
    /\ \E event_type \in EventTypes, reg \in TestRegistrations :
          Becomes(register_event_handler(World, event_type, reg[1], reg[2]))
    /\ UNCHANGED <<proc, invocations>>

EmitEvent ==
    /\ Calling
    /\ uuid_count["event"] < MaxEmits
    /\ \E event_type \in EventTypes, payload \in Payloads,
          correlation_id \in CorrelationIds :
          Becomes(emit_event(World, event_type, payload, correlation_id))
    /\ UNCHANGED <<proc, invocations>>

ClearEventQueue ==
    /\ Calling
    /\ Becomes(clear_event_queue(World))
    /\ invocations' = <<>>
    /\ UNCHANGED proc

MaxEventsArgs == {None, Some(1)}

\* process_events is called: processed_count = 0
ProcessEvents ==
    /\ Calling
    /\ \E max_events \in MaxEventsArgs :
          proc' = [pc |-> "loop", max_events |-> max_events, processed_count |-> 0,
                   event |-> None, i |-> 0]
    /\ UNCHANGED <<event_queue, event_handlers, failed_events, library_db,
                   notification_db, analytics_db, audit_db, processed_events,
                   uuid_count, heap, clock, invocations>>
    /\ UNCHANGED <<MonolithVars, LayeredVars, ConcurrentVars>>

\* the while test: either the next event is popped or the call returns
ProcessLoop ==
    /\ proc.pc = "loop"
    /\ IF more_to_process(World, proc)
       THEN LET k == pop_index(event_queue)
                event == event_queue[k]
            IN /\ event_queue' = RemoveAt(event_queue, k)
               /\ proc' = IF event.type \in DOMAIN event_handlers
                          THEN [proc EXCEPT !.pc = "handlers", !.event = Some(event),
                                            !.i = 1, !.processed_count = @ + 1]
                          ELSE [proc EXCEPT !.processed_count = @ + 1]
       ELSE /\ proc' = Idle
            /\ UNCHANGED event_queue
    /\ UNCHANGED <<event_handlers, failed_events, library_db, notification_db,
                   analytics_db, audit_db, processed_events, uuid_count, heap, clock,
                   invocations>>
    /\ UNCHANGED <<MonolithVars, LayeredVars, ConcurrentVars>>

\* one iteration of the for loop over the handlers of the event's type
ProcessHandler ==
    /\ proc.pc = "handlers"
    /\ LET event == Val(proc.event)
           handlers == event_handlers[event.type]
           handler_info == handlers[proc.i]
           raised == call_handler(World, handler_info, event).raised
       IN /\ Becomes(run_handler(World, handler_info, event))
          /\ invocations' = Append(invocations,
                                   [event |-> event, i |-> proc.i,
                                    n |-> Len(handlers),
                                    handler |-> handler_info.handler,
                                    service |-> handler_info.service,
                                    raised |-> raised])
          /\ proc' = after_handler(proc, raised, Len(handlers))

BrokerNext ==
    \/ RegisterEventHandler
    \/ EmitEvent
    \/ ProcessEvents
    \/ ProcessLoop
    \/ ProcessHandler

\* the broker alone, driven as its tests drive it
SpecBroker == Init /\ [][BrokerNext]_vars


\* -- library service
\* The arguments the library's callers pass. ISBNs and addresses are only
\* compared with each other, so a caller's new one is the next of a list: no
\* ISBN, one already added or the next of two; no copy, one or two; an address
\* that is empty, without "@", already registered or the next of two; a name
\* that is empty, blank or padded.
Isbns == <<<<"9", "7", "8", "-", "1">>, <<"9", "7", "8", "-", "2">>>>
Emails == <<<<"a", "@", "x">>, <<"b", "@", "x">>>>

UpTo(list, n) == {list[k] : k \in {j \in DOMAIN list : j <= n}}

IsbnArgs == {<<>>} \cup UpTo(Isbns, Cardinality(DOMAIN library_db.books) + 1)
CopiesArgs == {0, 1, 2}
EmailArgs ==
    {<<>>, <<"a", "x">>} \cup UpTo(Emails, Cardinality(DOMAIN library_db.users) + 1)
NameArgs == {<<>>, <<" ">>, <<" ", "N">>}
UserTypeArgs == {"standard", "premium"}
UserIdArgs == {<<"user", n>> : n \in 1..(uuid_count["user"] + 1)}
BookIdArgs == {<<"book", n>> : n \in 1..(uuid_count["book"] + 1)}

\* the caps of a run on what its callers create
LibraryCaps == [borrowing |-> MaxBorrowings, event |-> MaxLibraryEmits]

\* the library calls that succeeded so far: each emitted one event, and every
\* other event is the NotificationSent of a notification
SuccessfulCalls(w) == w.uuid_count["event"] - w.uuid_count["notification"]

Within(w, caps) ==
    /\ \A kind \in DOMAIN caps \ {"calls"} : w.uuid_count[kind] <= caps[kind]
    /\ "calls" \in DOMAIN caps => SuccessfulCalls(w) <= caps["calls"]
    /\ Len(w.event_queue) <= MaxQueue

LibraryCall(r, caps) ==
    /\ Calling
    /\ Within(r.w, caps)
    /\ Becomes(r.w)
    /\ UNCHANGED <<proc, invocations>>

\* the arguments of add_book_to_library: an ISBN with each number of copies, and
\* each way of leaving a required argument empty
AddBookArgs ==
    {<<isbn, "T", "A", copies>> : isbn \in IsbnArgs, copies \in CopiesArgs}
        \cup {<<Isbns[1], "", "A", 1>>, <<Isbns[1], "T", "", 1>>}

AddBook(caps) ==
    \E a \in AddBookArgs :
       LibraryCall(add_book_to_library(World, a[1], a[2], a[3], a[4]), caps)

\* the arguments of register_user: an address with each user type, and each way
\* of giving no name
RegisterUserArgs ==
    {<<email, <<" ", "N">>, user_type>> : email \in EmailArgs, user_type \in UserTypeArgs}
        \cup {<<Emails[1], name, "standard">> : name \in NameArgs}

RegisterUser(caps) ==
    \E a \in RegisterUserArgs :
       LibraryCall(register_user(World, a[1], a[2], a[3]), caps)

BorrowBook(caps) ==
    \E user_id \in UserIdArgs, book_id \in BookIdArgs :
       LibraryCall(borrow_book(World, user_id, book_id), caps)

ReturnBook(caps) ==
    \E user_id \in UserIdArgs, book_id \in BookIdArgs :
       LibraryCall(return_book(World, user_id, book_id), caps)

SuspendUser(caps) ==
    \E user_id \in UserIdArgs :
       LibraryCall(suspend_user(World, user_id, "overdue"), caps)

LibraryNext ==
    \/ AddBook(LibraryCaps)
    \/ RegisterUser(LibraryCaps)
    \/ BorrowBook(LibraryCaps)
    \/ ReturnBook(LibraryCaps)
    \/ SuspendUser(LibraryCaps)
    \/ ProcessEvents
    \/ ProcessLoop

\* the library service called on the module as imported
Spec == Init /\ [][LibraryNext]_vars

\* -- a stocked library and one reader
Digits == <<"1", "2", "3", "4", "5", "6", "7", "8", "9">>
ShelfIsbn(n) == <<"9", "7", "8", "-", Digits[n]>>

RECURSIVE AddBooks(_, _)
AddBooks(w, n) ==
    IF n = 0 THEN w
    ELSE add_book_to_library(AddBooks(w, n - 1), ShelfIsbn(n), "T", "A", 2).w

\* the library after one more two-copy book than the reader may hold was
\* added and the reader registered; the events of these calls are in the queue
Stocked(user_type) ==
    register_user(AddBooks(EmptyWorld, borrowing_limit(user_type) + 1),
                  Emails[1], <<" ", "N">>, user_type).w

InitLending == \E user_type \in UserTypeArgs : Starts(Stocked(user_type))

\* Books are told apart only by their ids: the reader asks for a book they had
\* before, for the first book on the shelf they never had, or for no book of
\* the library.
BooksOf(user_id) ==
    {library_db.borrowings[bid].book_id :
        bid \in {b \in DOMAIN library_db.borrowings :
                    library_db.borrowings[b].user_id = user_id}}

ShelfArgs(user_id) ==
    LET had == BooksOf(user_id)
        new == {b \in DOMAIN library_db.books : b \notin had}
    IN had \cup {b \in new : \A other \in new : Serial(b) <= Serial(other)}
           \cup {<<"book", uuid_count["book"] + 1>>}

LendingCaps == [borrowing |-> MaxLoans]

Drained(w) == w.event_queue = <<>>

BorrowFromShelf ==
    \E user_id \in UserIdArgs : \E book_id \in ShelfArgs(user_id) :
       /\ Drained(World)
       /\ LibraryCall(borrow_book(World, user_id, book_id), LendingCaps)

ReturnToShelf ==
    \E user_id \in UserIdArgs : \E book_id \in ShelfArgs(user_id) :
       /\ Drained(World)
       /\ LibraryCall(return_book(World, user_id, book_id), LendingCaps)

LendingNext ==
    \/ BorrowFromShelf
    \/ ReturnToShelf
    \/ ProcessEvents
    \/ ProcessLoop

\* one reader borrowing from and returning to a stocked library
SpecLending == InitLending /\ [][LendingNext]_vars

\* -- the wired system
SystemCaps == [calls |-> MaxSystemCalls]

SystemNext ==
    \/ AddBook(SystemCaps)
    \/ RegisterUser(SystemCaps)
    \/ BorrowBook(SystemCaps)
    \/ ReturnBook(SystemCaps)
    \/ SuspendUser(SystemCaps)
    \/ ProcessEvents
    \/ ProcessLoop
    \/ ProcessHandler

\* the library service called after setUp, its events handled by the services
SpecSystem == InitSystem /\ [][SystemNext]_vars

\* -- the initialized system with a caller that emits events of its own
\* events whose payloads lack fields the notification and analytics handlers
\* read: handle_user_registered raises on 'name', handle_book_borrowed on
\* 'book_title' and handle_book_borrowed_analytics on 'book_id'; the caller
\* passes a correlation id (the library's calls pass none)
DirectEvents ==
    {<<"UserRegistered", [user_id |-> <<"user", 0>>]>>,
     <<"BookBorrowed", [user_id |-> <<"user", 0>>]>>}

EmitDirect ==
    \E d \in DirectEvents :
       LibraryCall([w |-> emit_event(World, d[1], d[2], Some(<<"correlation", 0>>))],
                   SystemCaps)

AuditNext ==
    \/ EmitDirect
    \/ AddBook(SystemCaps)
    \/ RegisterUser(SystemCaps)
    \/ BorrowBook(SystemCaps)
    \/ ReturnBook(SystemCaps)
    \/ SuspendUser(SystemCaps)
    \/ ProcessEvents
    \/ ProcessLoop
    \/ ProcessHandler

SpecAudit == InitSystem /\ [][AuditNext]_vars

\* -- a caller of emit_event that keeps and changes the payload it passed
\* payload = {"data": "process_me", "tags": ["a"]}
NewPayload ==
    /\ Calling
    /\ Cardinality(DOMAIN heap.dicts) < MaxObjects
    /\ LET n == Cardinality(DOMAIN heap.dicts) + 1
       IN Becomes([World EXCEPT
                      !.heap.dicts = Put(@, <<"dict", n>>,
                                         [data |-> "process_me",
                                          tags |-> <<"list", n>>]),
                      !.heap.lists = Put(@, <<"list", n>>, <<"a">>)])
    /\ UNCHANGED <<proc, invocations>>

\* emit_event("ProcessTest", payload)
EmitPayload ==
    /\ Calling
    /\ uuid_count["event"] < MaxEmits
    /\ \E payload \in DOMAIN heap.dicts :
          Becomes(emit_event(World, "ProcessTest", heap.dicts[payload], None))
    /\ UNCHANGED <<proc, invocations>>

\* payload["data"] = "changed"
SetField ==
    /\ Calling
    /\ \E payload \in DOMAIN heap.dicts :
          /\ heap.dicts[payload].data # "changed"
          /\ Becomes([World EXCEPT !.heap.dicts[payload].data = "changed"])
    /\ UNCHANGED <<proc, invocations>>

\* payload["tags"].append("b")
AppendNested ==
    /\ Calling
    /\ \E payload \in DOMAIN heap.dicts :
          LET tags == heap.dicts[payload].tags
          IN /\ Len(heap.lists[tags]) < 1 + MaxAppends
             /\ Becomes([World EXCEPT !.heap.lists[tags] = Append(@, "b")])
    /\ UNCHANGED <<proc, invocations>>

PayloadNext ==
    \/ NewPayload
    \/ EmitPayload
    \/ SetField
    \/ AppendNested
    \/ ProcessEvents
    \/ ProcessLoop

SpecPayload == Init /\ [][PayloadNext]_vars

\* -- the initialized system with snapshots taken between the calls
SnapshotCaps == [calls |-> MaxSystemCalls, snapshot |-> MaxSnapshots]

CreateSnapshot == LibraryCall(create_system_snapshot(World), SnapshotCaps)

SnapshotNext ==
    \/ CreateSnapshot
    \/ AddBook(SnapshotCaps)
    \/ RegisterUser(SnapshotCaps)
    \/ BorrowBook(SnapshotCaps)
    \/ ReturnBook(SnapshotCaps)
    \/ SuspendUser(SnapshotCaps)
    \/ ProcessEvents
    \/ ProcessLoop
    \/ ProcessHandler

SpecSnapshot == InitSystem /\ [][SnapshotNext]_vars

\* -- a reader who comes back around the day a book is due
\* the clock readings the reader comes back at: from one tick before a due
\* date to one tick more than MaxLateDays after it
Lateness == (0 - 1)..(MaxLateDays * TicksPerDay + 1)

Wait ==
    /\ Calling
    /\ \E bid \in DOMAIN library_db.borrowings : \E d \in Lateness :
          /\ IsNone(library_db.borrowings[bid].returned_date)
          /\ library_db.borrowings[bid].due_date + d > clock
          /\ clock' = library_db.borrowings[bid].due_date + d
    /\ UNCHANGED <<event_queue, event_handlers, failed_events, library_db,
                   notification_db, analytics_db, audit_db, processed_events,
                   uuid_count, heap, proc, invocations>>
    /\ UNCHANGED <<MonolithVars, LayeredVars, ConcurrentVars>>

\* one loan: the reader borrows one book and brings it back
LateCaps == [borrowing |-> 1]

BorrowOnTime ==
    \E user_id \in UserIdArgs : \E book_id \in ShelfArgs(user_id) :
       /\ Drained(World)
       /\ LibraryCall(borrow_book(World, user_id, book_id), LateCaps)

LateNext ==
    \/ Wait
    \/ BorrowOnTime
    \/ ReturnToShelf
    \/ ProcessEvents
    \/ ProcessLoop

SpecLate == InitLending /\ [][LateNext]_vars

\* one reader and one title; the caller drains the queue after each call, as
\* the tests do
ClockCaps == [calls |-> MaxSystemCalls, user |-> 1, book |-> 1]

ClockCall ==
    /\ Drained(World)
    /\ \/ AddBook(ClockCaps)
       \/ RegisterUser(ClockCaps)
       \/ BorrowBook(ClockCaps)
       \/ ReturnBook(ClockCaps)

ClockNext ==
    \/ Tick
    \/ ClockCall
    \/ ProcessEvents
    \/ ProcessLoop
    \/ ProcessHandler

SpecClock == InitSystem /\ [][ClockNext]_vars

\* -- the initialized system and a reader who comes back around the due date
\* one reader, one title, one loan, and the return after it
OverdueCaps == [calls |-> MaxSystemCalls + 1, user |-> 1, book |-> 1,
                borrowing |-> 1]

OverdueCall ==
    /\ Drained(World)
    /\ \/ AddBook(OverdueCaps)
       \/ RegisterUser(OverdueCaps)
       \/ BorrowBook(OverdueCaps)
       \/ ReturnBook(OverdueCaps)

\* the reader comes back when the events of the loan have been handled
ComeBack == Drained(World) /\ Wait

OverdueNext ==
    \/ ComeBack
    \/ OverdueCall
    \/ ProcessEvents
    \/ ProcessLoop
    \/ ProcessHandler

SpecOverdue == InitSystem /\ [][OverdueNext]_vars

\* -- the services wired over a stocked library
\* initialize_event_driven_system clears the broker and leaves the library's
\* books and reader in place
InitWired ==
    \E user_type \in UserTypeArgs :
       Starts(initialize_event_driven_system(Stocked(user_type)))

WiredCaps == [borrowing |-> MaxBorrowings]

BorrowWired ==
    \E user_id \in UserIdArgs : \E book_id \in ShelfArgs(user_id) :
       /\ Drained(World)
       /\ LibraryCall(borrow_book(World, user_id, book_id), WiredCaps)

WiredNext ==
    \/ BorrowWired
    \/ ReturnToShelf
    \/ ProcessEvents
    \/ ProcessLoop
    \/ ProcessHandler

SpecWired == InitWired /\ [][WiredNext]_vars

\* -- the audit service called as its tests call it
\* handle_any_event_for_audit(event_type, payload, metadata) called directly:
\* payloads that name a user, a book, both or neither, and metadata that gives a
\* timestamp (earlier or later than those logged before) or none
TrailPayloads ==
    {[user_id |-> <<"user", 1>>],
     [user_id |-> <<"user", 1>>, book_id |-> <<"book", 1>>],
     [book_id |-> <<"book", 1>>],
     [user_id |-> <<"user", 2>>, book_id |-> <<"book", 1>>],
     [reason |-> "none"]}

TrailMetadata == {EmptyDict} \cup {[timestamp |-> t] : t \in 0..MaxClock}

LogForAudit ==
    /\ Calling
    /\ Len(audit_db.events) < MaxAudits
    /\ \E payload \in TrailPayloads : \E metadata \in TrailMetadata :
          Becomes(handle_any_event_for_audit(World, "BookBorrowed", payload,
                                             metadata).w)
    /\ UNCHANGED <<proc, invocations>>

SpecTrail == InitSystem /\ [][LogForAudit]_vars

\* -- the broker with a caller that resets it
\* emit_event(event_type, payload): no correlation id given
EmitPlain ==
    /\ Calling
    /\ uuid_count["event"] < MaxEmits
    /\ \E event_type \in EventTypes, payload \in Payloads :
          Becomes(emit_event(World, event_type, payload, None))
    /\ UNCHANGED <<proc, invocations>>

ResetNext ==
    \/ ClearEventQueue
    \/ RegisterEventHandler
    \/ EmitPlain
    \/ ProcessEvents
    \/ ProcessLoop
    \/ ProcessHandler

SpecReset == Init /\ [][ResetNext]_vars

\* -- the todo manager
TaskIdArgs == 1..(MaxTasks + 1)
PriorityArgs == {1, 2}

AddTask ==
    /\ Len(tasks) < MaxTasks
    /\ \E priority \in PriorityArgs : tasks' = add_task(tasks, "task", priority)
    /\ UNCHANGED <<EventDrivenVars, LayeredVars, ConcurrentVars>>

MarkTaskDone ==
    /\ \E task_id \in TaskIdArgs : tasks' = mark_task_done(tasks, task_id)
    /\ UNCHANGED <<EventDrivenVars, LayeredVars, ConcurrentVars>>

RemoveTask ==
    /\ \E task_id \in TaskIdArgs : tasks' = remove_task(tasks, task_id)
    /\ UNCHANGED <<EventDrivenVars, LayeredVars, ConcurrentVars>>

ClearAllTasks ==
    /\ tasks' = clear_all_tasks(tasks)
    /\ UNCHANGED <<EventDrivenVars, LayeredVars, ConcurrentVars>>

TodoNext ==
    \/ AddTask
    \/ MarkTaskDone
    \/ RemoveTask
    \/ ClearAllTasks

\* todo_manager.py as imported: tasks = []
SpecTodo == Init /\ [][TodoNext]_vars

\* -- the layered library system
\* the state l becomes the next state of the layered module
LayeredBecomes(l) ==
    /\ books_db' = l.books_db
    /\ users_db' = l.users_db
    /\ transactions_db' = l.transactions_db
    /\ UNCHANGED <<EventDrivenVars, MonolithVars, ConcurrentVars>>

LayeredUsers == {"user1", "user2"}
LayeredBookIds == 1..(MaxTitles + 1)

AddLayeredBook ==
    /\ Cardinality(DOMAIN books_db) < MaxTitles
    /\ \E copies \in {1, 2} :
          LayeredBecomes(add_book_to_library_layered(
                            Layered, <<"T">>, <<"A">>, "123456789", copies).w)

BorrowBookWorkflow ==
    /\ Len(transactions_db) < MaxTransactions
    /\ \E user_id \in LayeredUsers, book_id \in LayeredBookIds :
          LayeredBecomes(borrow_book_workflow(Layered, user_id, book_id).w)

ReturnBookWorkflow ==
    /\ Len(transactions_db) < MaxTransactions
    /\ \E user_id \in LayeredUsers, book_id \in LayeredBookIds :
          LayeredBecomes(return_book_workflow(Layered, user_id, book_id).w)

LayeredNext ==
    \/ AddLayeredBook
    \/ BorrowBookWorkflow
    \/ ReturnBookWorkflow

\* library_management.py as imported: the three stores are empty
SpecLayered == Init /\ [][LayeredNext]_vars

\* -- one reader and one title, with process_events running on
\* process_events is a loop of straight-line code: once called it takes its
\* next step, the while test or the next handler, until it returns
DrainNext ==
    \/ AddBook(ClockCaps)
    \/ RegisterUser(ClockCaps)
    \/ BorrowBook(ClockCaps)
    \/ ReturnBook(ClockCaps)
    \/ ProcessEvents
    \/ ProcessLoop
    \/ ProcessHandler

SpecDrain ==
    /\ InitSystem
    /\ [][DrainNext]_vars
    /\ WF_vars(ProcessLoop)
    /\ WF_vars(ProcessHandler)

\* ------------------------------------------------------------------ claims
\* events still in the queue, as a set
Queued == {event_queue[k] : k \in DOMAIN event_queue}

\* C1: handlers are invoked in event-arrival order, and within one event in
\* registration order: of two handler calls, the earlier one belongs to the event
\* enqueued earlier or, for the same event, to the registration made earlier; and
\* no event still waiting in the queue was enqueued before an event already handled.
C1_FifoAndRegistrationOrder ==
    /\ \A p, q \in DOMAIN invocations :
          p < q =>
             \/ Serial(invocations[p].event.event_id) < Serial(invocations[q].event.event_id)
             \/ /\ invocations[p].event = invocations[q].event
                /\ invocations[p].i < invocations[q].i
    /\ \A p \in DOMAIN invocations : \A e \in Queued :
          Serial(invocations[p].event.event_id) < Serial(e.event_id)

\* two events were handled, one of them by two handlers
C1_Witness ==
    /\ \E p, q \in DOMAIN invocations :
          p < q /\ invocations[p].event # invocations[q].event
    /\ \E p, q \in DOMAIN invocations :
          p < q /\ invocations[p].event = invocations[q].event

\* the handler calls that raised, in the order they were made
FailedInvocations == SelectSeq(invocations, LAMBDA c : c.raised)

\* C2: a failing handler stops no other handler: between two events, every
\* event that was dispatched has had each of its n handlers called once, in
\* order, failing or not; the drain goes on after a handler, raising or not; and
\* the failure log holds exactly one FailedEvent per failing call, with the
\* original event and the failing handler's service name, and nothing else.
C2_AllHandlersRun ==
    \A p \in DOMAIN invocations :
       /\ invocations[p].i = 1 \/
            (p > 1 /\ invocations[p - 1].event = invocations[p].event
                   /\ invocations[p - 1].i = invocations[p].i - 1)
       /\ invocations[p].i < invocations[p].n =>
            \/ /\ p < Len(invocations)
               /\ invocations[p + 1].event = invocations[p].event
               /\ invocations[p + 1].i = invocations[p].i + 1
            \/ /\ p = Len(invocations)
               /\ proc.pc = "handlers"
               /\ proc.event = Some(invocations[p].event)
               /\ proc.i = invocations[p].i + 1

C2_OneFailedEventPerFailure ==
    /\ Len(failed_events) = Len(FailedInvocations)
    /\ \A k \in DOMAIN failed_events :
          /\ failed_events[k].original_event = FailedInvocations[k].event
          /\ failed_events[k].handler_service = FailedInvocations[k].service

C2_DrainGoesOn ==
    proc.pc = "handlers" =>
       /\ proc'.pc \in {"handlers", "loop"}
       /\ proc'.max_events = proc.max_events
       /\ proc'.processed_count = proc.processed_count
       /\ Len(event_queue') >= Len(event_queue)
       /\ SubSeq(event_queue', 1, Len(event_queue)) = event_queue

\* C2: failure isolation: a handler that raises stops neither the other
\* handlers of its event nor the later events, and each raising call, and only
\* such a call, leaves one FailedEvent naming the event and the service.
C2_FailureIsolation ==
    /\ [](C2_AllHandlersRun /\ C2_OneFailedEventPerFailure)
    /\ [][C2_DrainGoesOn]_vars

\* a handler failed, the next handler of the same event ran, and so did a
\* handler of a later event
C2_Witness ==
    /\ Len(failed_events) >= 1
    /\ \E p, q, r \in DOMAIN invocations :
          /\ p < q /\ q < r
          /\ invocations[p].raised
          /\ invocations[q].event = invocations[p].event
          /\ ~invocations[q].raised
          /\ invocations[r].event # invocations[p].event

\* ---------------------------------------------------------- library claims
Users == DOMAIN library_db.users
Books == DOMAIN library_db.books
Borrowings == DOMAIN library_db.borrowings

\* the borrowings not yet returned: all, of a user, on a book
OpenBorrowings == {bid \in Borrowings : IsNone(library_db.borrowings[bid].returned_date)}
OpenOf(user_id) == {bid \in OpenBorrowings : library_db.borrowings[bid].user_id = user_id}
OpenOn(book_id) == {bid \in OpenBorrowings : library_db.borrowings[bid].book_id = book_id}
Holds(user_id, book_id) == OpenOf(user_id) \cap OpenOn(book_id) # {}
Active(user_id) == library_db.users[user_id].status = "active"
Available(book_id) == library_db.books[book_id].available_copies

\* a call's outcome left the library's tables and the broker's queue as they are
Untouched(r) == r.w.library_db = library_db /\ r.w.event_queue = event_queue

\* C3: whatever calls of add_book_to_library, register_user, borrow_book,
\* return_book and suspend_user were made, every book's available_copies is its
\* total_copies less the number of its borrowings not yet returned.
C3_CopiesBalance ==
    \A book_id \in Books :
       Available(book_id)
          = library_db.books[book_id].total_copies - Cardinality(OpenOn(book_id))

\* a book is out with one reader after a book was given back, and a user is
\* suspended
C3_Witness ==
    /\ \E book_id \in Books : OpenOn(book_id) # {}
    /\ Borrowings \ OpenBorrowings # {}
    /\ \E user_id \in Users : ~Active(user_id)

\* C4: a user has at most one open borrowing of a book, and no more open
\* borrowings than the user's borrowing_limit, which is 5 for a premium user and
\* 3 for any other.
C4_OpenBorrowingsBounded ==
    \A user_id \in Users :
       /\ \A book_id \in Books : Cardinality(OpenOf(user_id) \cap OpenOn(book_id)) <= 1
       /\ Cardinality(OpenOf(user_id)) <= library_db.users[user_id].borrowing_limit
       /\ library_db.users[user_id].borrowing_limit
             = IF library_db.users[user_id].user_type = "premium" THEN 5 ELSE 3

\* a premium user holds five books after a book was given back
C4_Witness ==
    \E user_id \in Users :
       /\ library_db.users[user_id].user_type = "premium"
       /\ Cardinality(OpenOf(user_id)) = 5
       /\ Borrowings \ OpenBorrowings # {}

ErrorsNow ==
    {add_book_to_library(World, a[1], a[2], a[3], a[4]).ret.text : a \in AddBookArgs}
      \cup {register_user(World, a[1], a[2], a[3]).ret.text : a \in RegisterUserArgs}
      \cup {borrow_book(World, user_id, book_id).ret.text :
               user_id \in UserIdArgs, book_id \in BookIdArgs}
      \cup {return_book(World, user_id, book_id).ret.text :
               user_id \in UserIdArgs, book_id \in BookIdArgs}

C7_NoCopyNoLoan ==
    /\ \A book_id \in Books : Available(book_id) >= 0
    /\ \A user_id \in Users, book_id \in Books :
          Active(user_id) /\ Available(book_id) = 0 =>
             LET r == borrow_book(World, user_id, book_id)
             IN /\ r.ret.status = "error"
                /\ r.ret.text = "Error: Book is not available for borrowing"
                /\ r.w = World

\* a book has no copy left while an active user holds it and another active
\* user does not
C7_Witness ==
    \E book_id \in Books, holder \in Users, other \in Users :
       /\ Available(book_id) = 0
       /\ Active(holder) /\ Holds(holder, book_id)
       /\ Active(other) /\ ~Holds(other, book_id)

\* C8: a standard user whose limit is 3 and who has 3 open borrowings cannot
\* borrow: every borrow_book of this user fails and leaves the library and the
\* queue as they were, and the error is the limit one for every book of the
\* library that has a copy left (the checks made before the limit check pass).
C8_LimitExceeded ==
    \A user_id \in Users :
       (/\ library_db.users[user_id].user_type = "standard"
        /\ library_db.users[user_id].borrowing_limit = 3
        /\ Cardinality(OpenOf(user_id)) = 3) =>
          \A book_id \in BookIdArgs :
             LET r == borrow_book(World, user_id, book_id)
             IN /\ r.ret.status = "error"
                /\ r.w.event_queue = event_queue
                /\ r.w = World
                /\ (Active(user_id) /\ book_id \in Books /\ Available(book_id) > 0) =>
                      r.ret.text = "Error: User has reached borrowing limit"

\* a standard user holds three books, events wait in the queue, and the library
\* has a book the user does not hold
C8_Witness ==
    \E user_id \in Users :
       /\ library_db.users[user_id].user_type = "standard"
       /\ Cardinality(OpenOf(user_id)) = 3
       /\ Active(user_id)
       /\ event_queue # <<>>
       /\ \E book_id \in Books : ~Holds(user_id, book_id) /\ Available(book_id) > 0

\* C9: register_user with an address some user has fails and leaves the users
\* as they are, with the duplicate error whenever a name is given; so no two
\* users have the same address.
C9_UniqueEmails ==
    /\ \A u1, u2 \in Users :
          u1 # u2 => library_db.users[u1].email # library_db.users[u2].email
    /\ \A a \in RegisterUserArgs :
          (\E user_id \in Users : library_db.users[user_id].email = a[1]) =>
             LET r == register_user(World, a[1], a[2], a[3])
             IN /\ r.ret.status = "error"
                /\ r.w.library_db.users = library_db.users
                /\ r.w = World
                /\ strip(a[2]) # <<>> =>
                      r.ret.text = "Error: User with this email already exists"

\* two users are registered, and the first one's address is offered again
C9_Witness ==
    /\ Cardinality(Users) = 2
    /\ \E a \in RegisterUserArgs : \E user_id \in Users :
          library_db.users[user_id].email = a[1] /\ strip(a[2]) # <<>>

\* the welcome notifications sent to a user
Welcomes(user_id) ==
    {k \in DOMAIN notification_db.notifications :
        /\ notification_db.notifications[k].user_id = user_id
        /\ notification_db.notifications[k].type = "welcome"}

\* C10: in the initialized system, once the queue is drained, every registered
\* user has exactly one welcome notification, total_users counts the users
\* (1 after one UserRegistered), and the audit log has an entry of type
\* UserRegistered for each of them.
C10_UserRegisteredFansOut ==
    (proc.pc = "idle" /\ event_queue = <<>>) =>
       /\ \A user_id \in Users : Cardinality(Welcomes(user_id)) = 1
       /\ Get(analytics_db.metrics, "total_users", 0) = Cardinality(Users)
       /\ \A user_id \in Users :
             \E k \in DOMAIN audit_db.events :
                /\ audit_db.events[k].event_type = "UserRegistered"
                /\ audit_db.events[k].payload.user_id = user_id

\* one user was registered and the queue is drained
C10_Witness ==
    /\ proc.pc = "idle"
    /\ event_queue = <<>>
    /\ Cardinality(Users) = 1
    /\ Get(analytics_db.metrics, "total_users", 0) = 1
    /\ Len(notification_db.notifications) = 1

\* ------------------------------------------------------ broker claims, more
\* what emit_event leaves of a world w in the world after it: the queue grew by
\* one envelope at its tail, and the registrations, the failure log, every
\* service's state and the record of handler calls are as they were
EmitOnlyAppends(w, after) ==
    /\ Len(after.event_queue) = Len(w.event_queue) + 1
    /\ SubSeq(after.event_queue, 1, Len(w.event_queue)) = w.event_queue
    /\ after.event_handlers = w.event_handlers
    /\ after.failed_events = w.failed_events
    /\ after.library_db = w.library_db
    /\ after.notification_db = w.notification_db
    /\ after.analytics_db = w.analytics_db
    /\ after.audit_db = w.audit_db
    /\ after.processed_events = w.processed_events

C11_EmitFrame ==
    \A event_type \in EventTypes, payload \in Payloads,
       correlation_id \in CorrelationIds :
       LET after == emit_event(World, event_type, payload, correlation_id)
           event == after.event_queue[Len(after.event_queue)]
       IN /\ EmitOnlyAppends(World, after)
          /\ event.type = event_type
          /\ event.payload = payload

\* a step in which a caller of the broker emits: no handler is called in it
C11_EmitStep ==
    (Calling /\ uuid_count'["event"] # uuid_count["event"]) =>
       /\ Len(event_queue') = Len(event_queue) + 1
       /\ SubSeq(event_queue', 1, Len(event_queue)) = event_queue
       /\ UNCHANGED <<event_handlers, failed_events, library_db, notification_db,
                      analytics_db, audit_db, processed_events, invocations, proc>>

\* C11: emit_event appends exactly one envelope to the tail of the queue (the
\* length grows by one, the entries before it keep their places) and calls no
\* handler: registrations, failure log and every service's state are unchanged.
C11_EmitAppendsOnly == []C11_EmitFrame /\ [][C11_EmitStep]_vars

\* a second event was emitted, for a type that has a handler, after a handler
\* had failed
C11_Witness ==
    /\ Len(event_queue) >= 1
    /\ event_queue[Len(event_queue)].type \in DOMAIN event_handlers
    /\ failed_events # <<>>
    /\ Serial(event_queue[Len(event_queue)].event_id) = 2

\* a running process_events(max_events = n) has popped at most n events
C12_AtMostMaxEvents ==
    (proc.pc # "idle" /\ ~IsNone(proc.max_events)) =>
       proc.processed_count <= Val(proc.max_events)

\* the steps of process_events: the call starts with no event popped; a step
\* that takes an event takes the head, counts it whether or not its type has a
\* handler, and leaves the rest in place; a handler step leaves what is queued
\* in place; the call returns only with the queue empty or the bound reached
C12_Steps ==
    /\ (proc.pc = "idle" /\ proc'.pc # "idle") =>
          proc'.processed_count = 0 /\ event_queue' = event_queue
    /\ (proc.pc = "loop" /\ proc'.pc # "idle") =>
          /\ event_queue # <<>>
          /\ event_queue' = Tail(event_queue)
          /\ proc'.processed_count = proc.processed_count + 1
          /\ proc'.max_events = proc.max_events
          /\ proc'.pc = "loop" <=> Head(event_queue).type \notin DOMAIN event_handlers
    /\ proc.pc = "handlers" =>
          /\ SubSeq(event_queue', 1, Len(event_queue)) = event_queue
          /\ proc'.processed_count = proc.processed_count
          /\ proc'.max_events = proc.max_events
    /\ (proc.pc = "loop" /\ proc'.pc = "idle") =>
          /\ event_queue' = event_queue
          /\ \/ event_queue = <<>>
             \/ /\ ~IsNone(proc.max_events)
                /\ proc.processed_count = Val(proc.max_events)
    /\ Len(event_queue') < Len(event_queue) => proc.pc = "loop"

\* C12: process_events(max_events = n) pops at most n events, each from the
\* head of the queue, counting the events without a handler, and leaves the
\* events it did not pop queued in their order; without a bound it returns only
\* when the queue is empty.
C12_BoundedDrain == []C12_AtMostMaxEvents /\ [][C12_Steps]_vars

\* process_events(max_events = 1) has popped an event no handler was called
\* for, and another event is still queued
C12_Witness ==
    /\ proc.pc = "loop"
    /\ proc.max_events = Some(1)
    /\ proc.processed_count = 1
    /\ invocations = <<>>
    /\ event_queue # <<>>

\* no event is queued twice, no registration was called twice for an event, no
\* event that was dispatched or whose handler failed is queued, and no envelope
\* counts a retry
C13_AtMostOnce ==
    /\ \A j, k \in DOMAIN event_queue :
          j # k => event_queue[j].event_id # event_queue[k].event_id
    /\ \A p, q \in DOMAIN invocations :
          (p # q /\ invocations[p].event.event_id = invocations[q].event.event_id)
             => invocations[p].i # invocations[q].i
    /\ \A p \in DOMAIN invocations : \A e \in Queued :
          e.event_id # invocations[p].event.event_id
    /\ \A k \in DOMAIN failed_events : \A e \in Queued :
          e.event_id # failed_events[k].original_event.event_id
    /\ \A e \in Queued : e.retry_count = 0

\* the steps: what enters the queue is a new event, never one that was queued
\* before; an event whose type has no handler is taken without a handler call
\* and without a FailedEvent; a handler that raises ends neither the drain nor
\* the call of process_events
C13_Steps ==
    /\ \A e \in Queued' \ Queued : Serial(e.event_id) > uuid_count["event"]
    /\ (proc.pc = "loop" /\ event_queue # <<>> /\ proc'.pc # "idle"
          /\ Head(event_queue).type \notin DOMAIN event_handlers) =>
          /\ invocations' = invocations
          /\ failed_events' = failed_events
          /\ proc'.pc = "loop"
    /\ proc.pc # "handlers" =>
          invocations' = invocations /\ failed_events' = failed_events
    /\ proc.pc = "handlers" =>
          /\ Len(invocations') = Len(invocations) + 1
          /\ proc'.pc \in {"handlers", "loop"}
          /\ proc'.pc = "handlers" <=> proc.i < Len(event_handlers[Val(proc.event).type])

RegistrationsOf(event_type) ==
    IF event_type \in DOMAIN event_handlers
    THEN {event_handlers[event_type][k] : k \in DOMAIN event_handlers[event_type]}
    ELSE {}

\* C14: in the initialized system each of BookAdded, BookBorrowed,
\* BookReturned, UserRegistered, UserSuspended and NotificationSent has a
\* handler, the audit handler among them; the notification service is
\* registered for UserRegistered, BookBorrowed and BookReturned and the
\* analytics service for BookBorrowed, BookReturned and UserRegistered; and
\* every event a service emits has one of the audited types.
C14_Wiring ==
    /\ \A event_type \in {"BookAdded", "BookBorrowed", "BookReturned",
                          "UserRegistered", "UserSuspended", "NotificationSent"} :
          /\ event_type \in DOMAIN event_handlers
          /\ Len(event_handlers[event_type]) >= 1
          /\ [handler |-> "handle_any_event_for_audit", service |-> "AuditService"]
                \in RegistrationsOf(event_type)
    /\ [handler |-> "handle_user_registered", service |-> "NotificationService"]
          \in RegistrationsOf("UserRegistered")
    /\ [handler |-> "handle_book_borrowed", service |-> "NotificationService"]
          \in RegistrationsOf("BookBorrowed")
    /\ [handler |-> "handle_book_returned", service |-> "NotificationService"]
          \in RegistrationsOf("BookReturned")
    /\ [handler |-> "handle_book_borrowed_analytics", service |-> "AnalyticsService"]
          \in RegistrationsOf("BookBorrowed")
    /\ [handler |-> "handle_book_returned_analytics", service |-> "AnalyticsService"]
          \in RegistrationsOf("BookReturned")
    /\ [handler |-> "handle_user_registered_analytics", service |-> "AnalyticsService"]
          \in RegistrationsOf("UserRegistered")
    /\ \A e \in Queued :
          [handler |-> "handle_any_event_for_audit", service |-> "AuditService"]
             \in RegistrationsOf(e.type)

\* events of the library service and of the notification service were emitted
\* and audited: a registration, the welcome it caused, and a suspension
C14_Witness ==
    {"UserRegistered", "NotificationSent", "UserSuspended"}
       \subseteq {audit_db.events[k].event_type : k \in DOMAIN audit_db.events}

\* the event being handled has not reached its audit handler yet
AuditPending ==
    /\ proc.pc = "handlers"
    /\ \A k \in DOMAIN audit_db.events :
          audit_db.events[k].event_id # Val(proc.event).event_id

\* the k-th audit entry is the entry of the k-th event emitted, written by one
\* call of the audit handler, with that event's type, id and correlation id;
\* every event emitted is audited, queued or being handled, also after a
\* handler of the notification or analytics service failed for it
C15_Complete ==
    /\ \A k \in DOMAIN audit_db.events :
          /\ Serial(audit_db.events[k].event_id) = k
          /\ \E p \in DOMAIN invocations :
                /\ invocations[p].service = "AuditService"
                /\ ~invocations[p].raised
                /\ invocations[p].event.event_id = audit_db.events[k].event_id
                /\ invocations[p].event.type = audit_db.events[k].event_type
                /\ invocations[p].event.correlation_id
                      = audit_db.events[k].correlation_id
                /\ invocations[p].event.payload = audit_db.events[k].payload
    /\ uuid_count["event"]
          = Len(audit_db.events) + Len(event_queue) + (IF AuditPending THEN 1 ELSE 0)
    /\ \A k \in DOMAIN failed_events :
          /\ failed_events[k].handler_service # "AuditService"
          /\ \/ /\ AuditPending
                /\ Val(proc.event) = failed_events[k].original_event
             \/ \E j \in DOMAIN audit_db.events :
                   audit_db.events[j].event_id
                      = failed_events[k].original_event.event_id

\* no step changes or removes an entry of the audit log
C15_AppendOnly ==
    /\ Len(audit_db'.events) >= Len(audit_db.events)
    /\ SubSeq(audit_db'.events, 1, Len(audit_db.events)) = audit_db.events

\* C15: the audit log is append-only and complete: in the initialized system
\* every processed event has exactly one audit entry with its type, event_id
\* and correlation_id, the entries are in the order the events were emitted, no
\* entry is ever changed or removed, and the entry is written also when the
\* notification or analytics handler of the event fails.
C15_AuditLog == []C15_Complete /\ [][C15_AppendOnly]_vars

\* an event for which the notification handler failed is in the audit log,
\* behind the entries of a registration and of the welcome it caused
C15_Witness ==
    /\ \E k \in DOMAIN failed_events : \E j \in DOMAIN audit_db.events :
          /\ failed_events[k].handler_service = "NotificationService"
          /\ audit_db.events[j].event_id = failed_events[k].original_event.event_id
          /\ j > 2
    /\ \E j \in DOMAIN audit_db.events :
          audit_db.events[j].event_type = "NotificationSent"

\* what a payload says: its items, with the list an item refers to in place of
\* the reference
Content(payload, h) ==
    [k \in DOMAIN payload |->
        IF k = "tags" THEN h.lists[payload[k]] ELSE payload[k]]

\* C16: once emit_event has returned, no change the caller makes to the
\* payload it passed, to a top-level field or to a value nested in it, changes
\* what the payload of the queued event says.
C16_QueuedPayloadIsolated ==
    [][\A j \in DOMAIN event_queue : \A k \in DOMAIN event_queue' :
          event_queue[j].event_id = event_queue'[k].event_id =>
             Content(event_queue'[k].payload, heap')
                = Content(event_queue[j].payload, heap)]_vars

\* the part of C16 that holds: the items of the queued payload themselves, the
\* top-level fields, are those passed to emit_event whatever the caller assigns
\* to the fields of its own dict afterwards
C16_TopLevelIsolated ==
    [][\A j \in DOMAIN event_queue : \A k \in DOMAIN event_queue' :
          event_queue[j].event_id = event_queue'[k].event_id =>
             event_queue'[k].payload = event_queue[j].payload]_vars

\* a payload was emitted and the caller then changed a top-level field of it
C16_Witness ==
    \E k \in DOMAIN event_queue : \E payload \in DOMAIN heap.dicts :
       /\ event_queue[k].payload.data = "process_me"
       /\ heap.dicts[payload].data = "changed"

\* the contents of the stored snapshots, as read in the current state
SnapshotsRead ==
    [sid \in DOMAIN audit_db.snapshots |-> read_snapshot(World, audit_db.snapshots[sid])]

\* C17: a stored snapshot is a deep copy: no later operation of the library,
\* notification or analytics service (a borrow_book that takes a copy of a
\* book, say) changes what the snapshot holds.
C17_SnapshotFrozen ==
    [][\A sid \in DOMAIN audit_db.snapshots :
          /\ sid \in DOMAIN audit_db'.snapshots
          /\ SnapshotsRead'[sid] = SnapshotsRead[sid]]_vars

\* the part of C17 that holds: the tables of a stored snapshot keep their
\* keys, and its numbers and notification data their values
C17_SnapshotKeysFrozen ==
    [][\A sid \in DOMAIN audit_db.snapshots :
          /\ sid \in DOMAIN audit_db'.snapshots
          /\ audit_db'.snapshots[sid] = audit_db.snapshots[sid]]_vars

\* a snapshot holding a book and a user is stored, and a book was borrowed
\* after it was taken
C17_Witness ==
    \E sid \in DOMAIN audit_db.snapshots :
       /\ DOMAIN audit_db.snapshots[sid].library_state.books # {}
       /\ DOMAIN audit_db.snapshots[sid].library_state.users # {}
       /\ DOMAIN audit_db.snapshots[sid].library_state.borrowings = {}
       /\ DOMAIN library_db.borrowings # {}

\* C18: calling get_audit_trail twice, or generate_usage_report twice, with the
\* same arguments returns the same result when nothing was changed between the
\* two calls. Between the calls the clock alone moves, as Tick moves it; the
\* arguments are every entity reference and every period.
EntityArgs == ({"user"} \X UserIdArgs) \cup ({"book"} \X BookIdArgs)
                 \cup ({"user"} \X BookIdArgs)
PeriodArgs == (0..MaxClock) \X (0..MaxClock)

\* the worlds a later call finds when nothing but the clock has moved
Later(w) == {[w EXCEPT !.clock = t] : t \in w.clock..MaxClock}

SameTrails ==
    \A later \in Later(World) : \A a \in EntityArgs :
       get_audit_trail(later, a[1], a[2]) = get_audit_trail(World, a[1], a[2])

Undated(report) == [report EXCEPT !.generated_at = 0]

Returned == {library_db.borrowings[bid] : bid \in Borrowings \ OpenBorrowings}

Lateness_of(b) == Val(b.returned_date) - b.due_date

C19_LateFee ==
    \A b \in Returned :
       /\ b.late_fee >= 0
       /\ Lateness_of(b) <= 0 => b.late_fee = 0
       /\ Lateness_of(b) > 0 =>
             \E days \in 0..(MaxLateDays + 1) :
                /\ days * TicksPerDay <= Lateness_of(b)
                /\ Lateness_of(b) < (days + 1) * TicksPerDay
                /\ b.late_fee = days * 50
       /\ Lateness_of(b) = 3 * TicksPerDay => b.late_fee = 150

\* a book came back exactly 3 days after it was due and the fee recorded is 1.50
C19_Witness ==
    \E b \in Returned : Lateness_of(b) = 3 * TicksPerDay /\ b.late_fee = 150

\* C20: once suspend_user has suspended a user, every borrow_book by that user,
\* whatever the book, ends in "Error: User account is not active" and changes
\* nothing, and the user stays suspended; suspend_user of an id that is no
\* user's ends in "Error: User not found" and changes nothing, so emits nothing.
Suspended == {user_id \in Users : library_db.users[user_id].status = "suspended"}

C20_Refused ==
    /\ \A user_id \in Suspended, book_id \in BookIdArgs :
          LET r == borrow_book(World, user_id, book_id)
          IN /\ r.ret.text = "Error: User account is not active"
             /\ r.w = World
    /\ \A user_id \in UserIdArgs \ Users :
          LET r == suspend_user(World, user_id, "overdue")
          IN /\ r.ret.text = "Error: User not found"
             /\ r.w = World

C20_StaysSuspended == \A user_id \in Suspended : user_id \in Suspended'

C20_SuspendedCannotBorrow == []C20_Refused /\ [][C20_StaysSuspended]_vars

\* a suspended user asks for a book that has a copy on the shelf and that they
\* do not hold, while the UserSuspended event is still in the queue
C20_Witness ==
    /\ \E user_id \in Suspended, book_id \in Books :
          Available(book_id) > 0 /\ ~Holds(user_id, book_id)
    /\ \E i \in DOMAIN event_queue : event_queue[i].type = "UserSuspended"

\* ------------------------------------------------- notification claims, more
\* the step is the call of the named handler on the event being processed
Handling(handler) ==
    /\ proc.pc = "handlers"
    /\ event_handlers[Val(proc.event).type][proc.i].handler = handler

\* what a step appended to a list that it otherwise left alone
Grown(old, new) ==
    /\ Len(new) >= Len(old)
    /\ SubSeq(new, 1, Len(old)) = old

Added(old, new) == SubSeq(new, Len(old) + 1, Len(new))

\* the step stored the notifications of the given types, in that order, for
\* the user of the event being handled, and enqueued one NotificationSent event
\* for each, in the same order
Notifies(types) ==
    LET ns == Added(notification_db.notifications, notification_db.notifications')
        es == Added(event_queue, event_queue')
    IN /\ Grown(notification_db.notifications, notification_db.notifications')
       /\ Grown(event_queue, event_queue')
       /\ Len(ns) = Len(types)
       /\ Len(es) = Len(types)
       /\ \A i \in DOMAIN types :
             /\ ns[i].type = types[i]
             /\ ns[i].user_id = Val(proc.event).payload.user_id
             /\ es[i].type = "NotificationSent"
             /\ es[i].payload.notification_id = ns[i].notification_id
             /\ es[i].payload.type = types[i]
       /\ \A i, j \in DOMAIN types :
             ns[i].notification_id = ns[j].notification_id => i = j

\* C21: each BookBorrowed event that handle_book_borrowed handles adds exactly
\* two notifications for the event's user, a borrow_confirmation followed by a
\* due_date_reminder, and enqueues exactly two NotificationSent events, one for
\* each notification.
C21_TwoNotifications ==
    [][Handling("handle_book_borrowed") =>
          Notifies(<<"borrow_confirmation", "due_date_reminder">>)]_vars

\* the two notifications of a borrowing are the last stored and their two
\* events are the last of the queue
C21_Witness ==
    LET ns == notification_db.notifications
    IN /\ Len(ns) >= 2
       /\ ns[Len(ns) - 1].type = "borrow_confirmation"
       /\ ns[Len(ns)].type = "due_date_reminder"
       /\ Len(event_queue) >= 2
       /\ event_queue[Len(event_queue) - 1].payload.notification_id
             = ns[Len(ns) - 1].notification_id
       /\ event_queue[Len(event_queue)].payload.notification_id
             = ns[Len(ns)].notification_id

RECURSIVE SumOf(_)
SumOf(counts) ==
    IF DOMAIN counts = {} THEN 0
    ELSE LET k == CHOOSE x \in DOMAIN counts : TRUE
         IN counts[k] + SumOf([x \in DOMAIN counts \ {k} |-> counts[x]])

TotalBorrows == Get(analytics_db.metrics, "total_borrows", 0)
Popularity == Get(analytics_db.metrics, "book_popularity", EmptyDict)
BorrowedEntries == SelectSeq(analytics_db.events, LAMBDA e : e.type = "book_borrowed")

C23_Counts ==
    /\ TotalBorrows = Len(BorrowedEntries)
    /\ TotalBorrows = SumOf(Popularity)

C23_Step ==
    Handling("handle_book_borrowed_analytics") =>
       LET book_id == Get(Val(proc.event).payload, "book_id", None)
       IN /\ TotalBorrows' = TotalBorrows + 1
          /\ Popularity' = Increment(Popularity, book_id, 1)
          /\ Grown(analytics_db.events, analytics_db.events')
          /\ Len(analytics_db.events') = Len(analytics_db.events) + 1
          /\ analytics_db.events'[Len(analytics_db.events')].type = "book_borrowed"
          /\ analytics_db.events'[Len(analytics_db.events')].data
                = Val(proc.event).payload

\* C23: in every state of the analytics service total_borrows is the number of
\* book_borrowed entries of its event log and the sum of the book_popularity
\* counts; each BookBorrowed event handled raises total_borrows and the
\* book_popularity of its book_id by exactly 1 and appends exactly one entry to
\* the log.
C23_BorrowsCounted == []C23_Counts /\ [][C23_Step]_vars

\* the analytics handler failed on a BookBorrowed event and has counted it
C23_Witness ==
    /\ TotalBorrows > 0
    /\ \E k \in DOMAIN failed_events :
          /\ failed_events[k].handler_service = "AnalyticsService"
          /\ failed_events[k].original_event.type = "BookBorrowed"

\* ------------------------------------------------------- audit claims, more
\* the positions in the audit log of the entries that refer to the entity
Matching(entity_type, entity_id) ==
    {k \in DOMAIN audit_db.events :
        LET payload == audit_db.events[k].payload
        IN \/ entity_type = "user" /\ "user_id" \in DOMAIN payload
                                   /\ payload.user_id = entity_id
           \/ entity_type = "book" /\ "book_id" \in DOMAIN payload
                                   /\ payload.book_id = entity_id}

\* the place in the trail of the entry logged at k: after the entries of an
\* earlier timestamp and after those of the same timestamp logged before it
PlaceOf(k, matching) ==
    Cardinality({j \in matching :
                    \/ audit_db.events[j].timestamp < audit_db.events[k].timestamp
                    \/ /\ audit_db.events[j].timestamp = audit_db.events[k].timestamp
                       /\ j <= k})

TrailArgs ==
    ({"user", "book", "borrowing"} \X {<<"user", 1>>, <<"user", 2>>, <<"book", 1>>})

\* C24: get_audit_trail(entity_type, entity_id) returns exactly the audit
\* entries whose payload's user_id (entity type user) or book_id (entity type
\* book) is entity_id, ordered by timestamp, entries of one timestamp in the
\* order they were logged; for any other entity type the trail is empty.
C24_AuditTrail ==
    \A a \in TrailArgs :
       LET trail == get_audit_trail(World, a[1], a[2])
           matching == Matching(a[1], a[2])
       IN /\ Len(trail) = Cardinality(matching)
          /\ \A k \in matching : trail[PlaceOf(k, matching)] = audit_db.events[k]
          /\ a[1] \notin {"user", "book"} => trail = <<>>

\* the log holds two entries of a user in the reverse of their timestamps'
\* order, two entries of one timestamp and an entry of another user
C24_Witness ==
    /\ \E j, k \in Matching("user", <<"user", 1>>) :
          j < k /\ audit_db.events[j].timestamp > audit_db.events[k].timestamp
    /\ \E j, k \in Matching("book", <<"book", 1>>) :
          /\ j < k
          /\ audit_db.events[j].timestamp = audit_db.events[k].timestamp
          /\ audit_db.events[j] # audit_db.events[k]
    /\ Matching("user", <<"user", 1>>) # DOMAIN audit_db.events

\* ------------------------------------------------------ broker claims, again
\* the registration list of an event type in a world
HandlersIn(w, event_type) == Get(w.event_handlers, event_type, <<>>)

\* how often a registration stands among the first n of a list
TimesIn(regs, n, reg) == Cardinality({k \in 1..n : regs[k] = reg})

\* how often a registration was called for an event
CallsFor(event, reg) ==
    Cardinality({p \in DOMAIN invocations :
                    /\ invocations[p].event = event
                    /\ invocations[p].handler = reg.handler
                    /\ invocations[p].service = reg.service})

\* C25: register_event_handler does not look for duplicates: whatever is
\* registered already, a call appends one entry to the list of its event type
\* and leaves the other types' lists, the queue and everything else as they
\* are, so a handler registered k times has k entries; and every event of the
\* type that was processed had the handler called k times, once per entry.
C25_NoDeduplication ==
    /\ \A event_type \in EventTypes, reg \in TestRegistrations :
          LET after == register_event_handler(World, event_type, reg[1], reg[2])
              entry == [handler |-> reg[1], service |-> reg[2]]
          IN /\ HandlersIn(after, event_type)
                   = Append(HandlersIn(World, event_type), entry)
             /\ \A other \in EventTypes \ {event_type} :
                   HandlersIn(after, other) = HandlersIn(World, other)
             /\ after = [World EXCEPT !.event_handlers = after.event_handlers]
    /\ \A p \in DOMAIN invocations :
          invocations[p].i = invocations[p].n =>
             \A reg \in TestRegistrations :
                LET entry == [handler |-> reg[1], service |-> reg[2]]
                    event == invocations[p].event
                IN CallsFor(event, entry)
                      = TimesIn(HandlersIn(World, event.type), invocations[p].n, entry)

\* one handler is registered twice for an event type, and an event of the type
\* was processed with two calls of it
C25_Witness ==
    \E event_type \in EventTypes : \E p \in DOMAIN invocations :
       LET regs == HandlersIn(World, event_type)
       IN /\ Len(regs) = 2
          /\ regs[1] = regs[2]
          /\ invocations[p].event.type = event_type
          /\ CallsFor(invocations[p].event, regs[1]) = 2

\* C26: whatever the state, clear_event_queue leaves the queue, the
\* registrations and the failure log empty; and a call of process_events right
\* after it, finding the queue empty, returns without calling a handler.
C26_Cleared ==
    LET after == clear_event_queue(World)
    IN /\ after.event_queue = <<>>
       /\ after.event_handlers = EmptyDict
       /\ after.failed_events = <<>>
       /\ \A max_events \in MaxEventsArgs :
             ~more_to_process(after, [Idle EXCEPT !.pc = "loop",
                                                   !.max_events = max_events])

C26_NothingToProcess ==
    (proc.pc = "loop" /\ event_queue = <<>>) =>
       /\ proc'.pc = "idle"
       /\ invocations' = invocations
       /\ failed_events' = failed_events

C26_Reset == []C26_Cleared /\ [][C26_NothingToProcess]_vars

\* process_events was called on a broker that was reset after a registered
\* handler had handled an event: nothing is queued, registered or logged
C26_Witness ==
    /\ proc.pc = "loop"
    /\ processed_events # <<>>
    /\ event_queue = <<>>
    /\ event_handlers = EmptyDict
    /\ failed_events = <<>>

\* ------------------------------------------------------------- todo claims
\* C27: whatever calls of add_task and remove_task were made, no two tasks of
\* the list have the same id.
C27_UniqueIds ==
    \A j, k \in DOMAIN tasks : tasks[j].id = tasks[k].id => j = k

\* a task was removed from the middle of the list and the ids left are unique
C27_Witness ==
    /\ Len(tasks) = 2
    /\ tasks[1].id = 1
    /\ tasks[2].id = 3

\* ---------------------------------------------------------- layered claims
\* C28: when borrow_book_workflow(u, b) succeeds and return_book_workflow(u, b)
\* follows, the return succeeds and the book's available_copies and the list of
\* books the user has borrowed are what they were before the borrow; a second
\* return of the book by the user then fails and changes nothing, so not
\* available_copies.
C28_BorrowThenReturn ==
    \A user_id \in LayeredUsers, book_id \in LayeredBookIds :
       LET borrowed == borrow_book_workflow(Layered, user_id, book_id)
           returned == return_book_workflow(borrowed.w, user_id, book_id)
           again == return_book_workflow(returned.w, user_id, book_id)
       IN borrowed.ret.status = "ok" =>
             /\ returned.ret.status = "ok"
             /\ returned.w.books_db[book_id].available_copies
                   = books_db[book_id].available_copies
             /\ get_user_borrowed_books(returned.w, user_id)
                   = get_user_borrowed_books(Layered, user_id)
             /\ again.ret.text = "Error: You have not borrowed this book"
             /\ again.w = returned.w

\* a user who holds another book has borrowed a book and returned it: the last
\* two transactions are that borrow and that return
C28_Witness ==
    LET n == Len(transactions_db)
    IN /\ n >= 3
       /\ transactions_db[n - 1].action = "borrow"
       /\ transactions_db[n].action = "return"
       /\ transactions_db[n].user_id = transactions_db[n - 1].user_id
       /\ transactions_db[n].book_id = transactions_db[n - 1].book_id
       /\ get_user_borrowed_books(Layered, transactions_db[n].user_id) # <<>>

\* ---------------------------------------------------------- drain claims
Unbounded == proc.pc # "idle" /\ IsNone(proc.max_events)

\* handling a NotificationSent event emits nothing
C29_NoFurtherEmission ==
    (proc.pc = "handlers" /\ Val(proc.event).type = "NotificationSent") =>
       /\ event_queue' = event_queue
       /\ uuid_count' = uuid_count

\* C29: with the registrations of initialize_event_driven_system, a call of
\* process_events without max_events returns, and returns with the queue
\* empty: the NotificationSent events that handlers emit during the drain are
\* drained too, and handling them emits nothing.
C29_DrainTerminates ==
    /\ Unbounded ~> (proc.pc = "idle" /\ event_queue = <<>>)
    /\ [][C29_NoFurtherEmission]_vars
    /\ [][(Unbounded /\ proc'.pc = "idle") => event_queue' = <<>>]_vars

\* an unbounded drain is handling a NotificationSent event that a handler
\* emitted during the drain, and another one is waiting
C29_Witness ==
    /\ Unbounded
    /\ proc.pc = "handlers"
    /\ Val(proc.event).type = "NotificationSent"
    /\ proc.processed_count > 1
    /\ event_queue # <<>>

\* ------------------------------------------------------ correlation claims
\* the events that the notification service answers with notifications
DomainEvents == {"UserRegistered", "BookBorrowed", "BookReturned"}

ReborrowCaps == [borrowing |-> 2]

BorrowAgain ==
    \E user_id \in UserIdArgs : \E book_id \in ShelfArgs(user_id) :
       /\ Drained(World)
       /\ LibraryCall(borrow_book(World, user_id, book_id), ReborrowCaps)

ReborrowNext ==
    \/ ComeBack
    \/ BorrowAgain
    \/ ReturnToShelf
    \/ ProcessEvents
    \/ ProcessLoop

SpecReborrow == InitLending /\ [][ReborrowNext]_vars

\* ------------------------------------------------------- borrowing lifecycle
IsOpen(b) == IsNone(b.returned_date)

\* the borrowing records of the book by the user
LoansOf(borrowings, user_id, book_id) ==
    {bid \in DOMAIN borrowings :
        /\ borrowings[bid].user_id = user_id
        /\ borrowings[bid].book_id = book_id}

\* C31: a borrowing is OPEN and then RETURNED, and RETURNED is terminal: no
\* step deletes a borrowing record; a record whose returned_date is set keeps
\* its returned_date and its late_fee in every later step; a record is created
\* open, and an open record changes only by being returned; a borrowing of a
\* book the user returned before adds a record and leaves the old one returned.
C31_Lifecycle ==
    [][LET old == library_db.borrowings
           new == library_db.borrowings'
       IN /\ DOMAIN old \subseteq DOMAIN new
          /\ \A bid \in DOMAIN old :
                IF IsOpen(old[bid])
                THEN \/ new[bid] = old[bid]
                     \/ /\ ~IsOpen(new[bid])
                        /\ [new[bid] EXCEPT !.returned_date = None, !.late_fee = 0]
                              = old[bid]
                ELSE new[bid] = old[bid]
          /\ \A bid \in DOMAIN new \ DOMAIN old : IsOpen(new[bid])
          /\ \A bid \in DOMAIN new \ DOMAIN old :
                LoansOf(new, new[bid].user_id, new[bid].book_id)
                   = LoansOf(old, new[bid].user_id, new[bid].book_id) \cup {bid}]_vars

\* the reader has the book a second time: the loan that came back is still
\* recorded as returned, with the fee of its late return, and a later record
\* of the same book is open
C31_Witness ==
    \E first, second \in DOMAIN library_db.borrowings :
       /\ first # second
       /\ library_db.borrowings[first].user_id = library_db.borrowings[second].user_id
       /\ library_db.borrowings[first].book_id = library_db.borrowings[second].book_id
       /\ ~IsOpen(library_db.borrowings[first])
       /\ library_db.borrowings[first].late_fee > 0
       /\ IsOpen(library_db.borrowings[second])
       /\ clock > Val(library_db.borrowings[first].returned_date)

\* -- the five library operations on the wired system
\* one reader and one title, each call of the library service in any order,
\* the events handled whenever the caller processes them
LedgerCaps ==
    [calls |-> MaxSystemCalls + 2, user |-> 1, book |-> 1, borrowing |-> 1]

LedgerNext ==
    \/ AddBook(LedgerCaps)
    \/ RegisterUser(LedgerCaps)
    \/ BorrowBook(LedgerCaps)
    \/ ReturnBook(LedgerCaps)
    \/ SuspendUser(LedgerCaps)
    \/ ProcessEvents
    \/ ProcessLoop
    \/ ProcessHandler

SpecLedger == InitSystem /\ [][LedgerNext]_vars

\* ------------------------------------------------------------ emission claims
\* a successful call appended the one event of the type to the queue
EmitsOne(r, event_type) ==
    r.ret.status = "ok" =>
       /\ Grown(event_queue, r.w.event_queue)
       /\ Len(Added(event_queue, r.w.event_queue)) = 1
       /\ Added(event_queue, r.w.event_queue)[1].type = event_type

TheEvent(r) == Added(event_queue, r.w.event_queue)[1]

\* the events of the type emitted so far: those the audit service has logged
\* (it is registered last for every type), the one being handled and those
\* still in the queue
Emitted(event_type) ==
    Cardinality({k \in DOMAIN audit_db.events :
                    audit_db.events[k].event_type = event_type})
       + Cardinality({k \in DOMAIN event_queue : event_queue[k].type = event_type})
       + (IF proc.pc = "handlers" /\ Val(proc.event).type = event_type
          THEN 1 ELSE 0)

\* C32: each successful call of add_book_to_library, register_user,
\* borrow_book, return_book and suspend_user appends exactly one event to the
\* queue, of type BookAdded, UserRegistered, BookBorrowed, BookReturned and
\* UserSuspended, and the event tells of the state the call has stored; the
\* BookBorrowed events emitted so far are as many as the borrowing records,
\* the BookReturned events as many as the returned borrowings.
C32_OneEventPerCall ==
    /\ \A a \in AddBookArgs :
          LET r == add_book_to_library(World, a[1], a[2], a[3], a[4])
          IN /\ EmitsOne(r, "BookAdded")
             /\ r.ret.status = "ok" =>
                   TheEvent(r).payload.book_id \in DOMAIN r.w.library_db.books \ Books
    /\ \A a \in RegisterUserArgs :
          LET r == register_user(World, a[1], a[2], a[3])
          IN /\ EmitsOne(r, "UserRegistered")
             /\ r.ret.status = "ok" =>
                   TheEvent(r).payload.user_id \in DOMAIN r.w.library_db.users \ Users
    /\ \A user_id \in UserIdArgs, book_id \in BookIdArgs :
          LET r == borrow_book(World, user_id, book_id)
          IN /\ EmitsOne(r, "BookBorrowed")
             /\ r.ret.status = "ok" =>
                   /\ TheEvent(r).payload.borrowing_id
                         \in DOMAIN r.w.library_db.borrowings \ Borrowings
                   /\ r.w.library_db.books[book_id].available_copies
                         = Available(book_id) - 1
    /\ \A user_id \in UserIdArgs, book_id \in BookIdArgs :
          LET r == return_book(World, user_id, book_id)
          IN /\ EmitsOne(r, "BookReturned")
             /\ r.ret.status = "ok" =>
                   LET bid == TheEvent(r).payload.borrowing_id
                   IN /\ bid \in OpenBorrowings
                      /\ ~IsOpen(r.w.library_db.borrowings[bid])
                      /\ TheEvent(r).payload.late_fee
                            = r.w.library_db.borrowings[bid].late_fee
    /\ \A user_id \in UserIdArgs :
          LET r == suspend_user(World, user_id, "overdue")
          IN /\ EmitsOne(r, "UserSuspended")
             /\ r.ret.status = "ok" =>
                   r.w.library_db.users[TheEvent(r).payload.user_id].status
                      = "suspended"
    /\ Emitted("BookAdded") = Cardinality(Books)
    /\ Emitted("UserRegistered") = Cardinality(Users)
    /\ Emitted("BookBorrowed") = Cardinality(Borrowings)
    /\ Emitted("BookReturned") = Cardinality(Borrowings \ OpenBorrowings)

\* the reader's loan has come back and the reader was suspended: one event of
\* each of the five types was emitted
C32_Witness ==
    /\ \A event_type \in {"BookAdded", "UserRegistered", "BookBorrowed",
                          "BookReturned", "UserSuspended"} :
          Emitted(event_type) = 1
    /\ Cardinality(Borrowings \ OpenBorrowings) = 1
    /\ Suspended # {}

\* ------------------------------------------------------------- frame claims
\* what the notification, analytics and audit stores hold, the stored
\* snapshots as they read
ServiceStores ==
    [notification |-> notification_db,
     analytics |-> analytics_db,
     audit_events |-> audit_db.events,
     snapshots |-> SnapshotsRead]

\* a call of the library service: made while no process_events call runs, and
\* not the taking of a snapshot
LibraryStep ==
    /\ proc.pc = "idle"
    /\ proc'.pc = "idle"
    /\ uuid_count'["snapshot"] = uuid_count["snapshot"]

\* C33: the services act on each other only through the queue: a call of the
\* library service leaves what the notification, analytics and audit stores
\* hold unchanged, and a handler of these services leaves the library's books,
\* users and borrowings unchanged.
C33_OnlyThroughQueue ==
    [][/\ LibraryStep => ServiceStores' = ServiceStores
       /\ proc.pc = "handlers" => library_db' = library_db]_vars

\* a snapshot taken before any book was borrowed shows a book with a copy out
C33_Witness ==
    \E sid \in DOMAIN audit_db.snapshots :
       /\ DOMAIN audit_db.snapshots[sid].library_state.borrowings = {}
       /\ \E book_id \in DOMAIN SnapshotsRead[sid].library_state.books :
             LET book == SnapshotsRead[sid].library_state.books[book_id]
             IN book.available_copies < book.total_copies

\* -- two process_events calls at once
\* A second thread calls process_events() while the first call may be running.
\* Each thread runs the loop of lines 105-131 on the shared queue and
\* registrations; a thread's step is the while test with the pop, or one
\* handler call. (Between the test and the pop the other thread can empty the
\* queue: pop(0) then raises IndexError and that call ends without calling a
\* handler.)
ProcessEvents2 ==
    /\ proc2.pc = "idle"
    /\ proc2' = [proc2 EXCEPT !.pc = "loop", !.max_events = None,
                              !.processed_count = 0]
    /\ UNCHANGED <<EventDrivenVars, MonolithVars, LayeredVars>>

ProcessLoop2 ==
    /\ proc2.pc = "loop"
    /\ IF more_to_process(World, proc2)
       THEN LET k == pop_index(event_queue)
                event == event_queue[k]
            IN /\ event_queue' = RemoveAt(event_queue, k)
               /\ proc2' = IF event.type \in DOMAIN event_handlers
                           THEN [proc2 EXCEPT !.pc = "handlers",
                                              !.event = Some(event),
                                              !.i = 1, !.processed_count = @ + 1]
                           ELSE [proc2 EXCEPT !.processed_count = @ + 1]
       ELSE /\ proc2' = [proc2 EXCEPT !.pc = "idle", !.processed_count = 0]
            /\ UNCHANGED event_queue
    /\ UNCHANGED <<event_handlers, failed_events, library_db, notification_db,
                   analytics_db, audit_db, processed_events, uuid_count, heap, clock,
                   invocations, proc>>
    /\ UNCHANGED <<MonolithVars, LayeredVars>>

ProcessHandler2 ==
    /\ proc2.pc = "handlers"
    /\ LET event == Val(proc2.event)
           handlers == event_handlers[event.type]
           handler_info == handlers[proc2.i]
           raised == call_handler(World, handler_info, event).raised
       IN /\ Assigns(run_handler(World, handler_info, event))
          /\ invocations' = Append(invocations,
                                   [event |-> event, i |-> proc2.i,
                                    n |-> Len(handlers),
                                    handler |-> handler_info.handler,
                                    service |-> handler_info.service,
                                    raised |-> raised])
          /\ proc2' = [after_handler(proc2, raised, Len(handlers))
                          EXCEPT !.ran = @ \cup {Len(invocations) + 1}]
    /\ UNCHANGED <<proc, MonolithVars, LayeredVars>>

\* the broker's callers register handlers for one event type and emit events
\* of it before the two threads start
Setup == proc.pc = "idle" /\ proc2.pc = "idle" /\ invocations = <<>>

RegisterBefore ==
    /\ Setup
    /\ Registered < MaxRegs
    /\ \E reg \in TestRegistrations :
          Becomes(register_event_handler(World, "ProcessTest", reg[1], reg[2]))
    /\ UNCHANGED <<proc, invocations>>

EmitBefore ==
    /\ Setup
    /\ uuid_count["event"] < MaxEmits
    /\ \E payload \in Payloads :
          Becomes(emit_event(World, "ProcessTest", payload, None))
    /\ UNCHANGED <<proc, invocations>>

TwoDrainsNext ==
    \/ RegisterBefore
    \/ EmitBefore
    \/ ProcessEvents
    \/ ProcessLoop
    \/ ProcessHandler
    \/ ProcessEvents2
    \/ ProcessLoop2
    \/ ProcessHandler2

SpecTwoDrains == Init /\ [][TwoDrainsNext]_vars

\* ------------------------------------------------------- concurrency claims
\* the two handler calls were made by the same process_events call
SameDrain(p, q) == (p \in proc2.ran) <=> (q \in proc2.ran)

EnqueuedBefore(p, q) ==
    Serial(invocations[p].event.event_id) < Serial(invocations[q].event.event_id)

\* C34: of the handler calls one drain loop makes, every handler of an event
\* has completed before a handler of the next event is called, events taken
\* in the order they were enqueued and handlers in registration order; so with
\* a single drain loop the whole trace is ordered so. With two drain loops at
\* once the order can be broken only between the calls of different loops
\* (C34_Witness is such a state).
C34_OneDrainKeepsOrder ==
    \A p, q \in DOMAIN invocations :
       (p < q /\ SameDrain(p, q)) =>
          \/ /\ invocations[p].event = invocations[q].event
             /\ invocations[p].i < invocations[q].i
          \/ /\ EnqueuedBefore(p, q)
             /\ \E r \in DOMAIN invocations :
                   /\ r < q
                   /\ invocations[r].event = invocations[p].event
                   /\ invocations[r].i = invocations[r].n

\* two drain loops ran at once: a handler of the event enqueued later was
\* called before the last handler of the event enqueued earlier
C34_Witness ==
    \E p, q \in DOMAIN invocations :
       /\ p < q
       /\ EnqueuedBefore(q, p)
       /\ ~SameDrain(p, q)
       /\ invocations[q].i > 1

\* -- a backlog of events
\* on the initialized system a reader was registered and then a book added,
\* and no event was processed yet: UserRegistered and BookAdded are queued
Backlog(user_type) ==
    add_book_to_library(
        register_user(initialize_event_driven_system(clear_all_system_state(EmptyWorld)),
                      Emails[1], <<" ", "N">>, user_type).w,
        Isbns[1], "T", "A", 1).w

InitBacklog == \E user_type \in UserTypeArgs : Starts(Backlog(user_type))

\* the reader then borrows and returns the book, the events processed at any
\* time
BacklogNext ==
    \/ OverdueCall
    \/ ProcessEvents
    \/ ProcessLoop
    \/ ProcessHandler

SpecBacklog == InitBacklog /\ [][BacklogNext]_vars

\* ------------------------------------------------------ emission in a drain
\* each handler registered for the event was called
Completed(event_id) ==
    \E r \in DOMAIN invocations :
       /\ invocations[r].event.event_id = event_id
       /\ invocations[r].i = invocations[r].n

\* the handlers of the notification's event were called
Dispatched(notification) ==
    \E r \in DOMAIN invocations :
       /\ invocations[r].event.type = "NotificationSent"
       /\ invocations[r].event.payload.notification_id = notification.notification_id

\* an event that a handler emitted is being dispatched: every event emitted
\* before it (those queued when it was emitted, and the event whose handler
\* emitted it) has had all its handlers called, and none is left in the queue
C35_AfterEarlierEvents ==
    (proc.pc = "handlers" /\ Val(proc.event).type = "NotificationSent") =>
       /\ \A n \in 1..(Serial(Val(proc.event).event_id) - 1) :
             Completed(<<"event", n>>)
       /\ \A e \in Queued :
             Serial(Val(proc.event).event_id) < Serial(e.event_id)

\* a handler call puts what it emits behind the events in the queue and calls
\* no handler itself; the unbounded call returns when the events of all the
\* notifications were dispatched
C35_EmittedAtTail ==
    /\ proc.pc = "handlers" =>
          /\ Grown(event_queue, event_queue')
          /\ \A k \in DOMAIN Added(event_queue, event_queue') :
                Added(event_queue, event_queue')[k].type = "NotificationSent"
          /\ Len(invocations') = Len(invocations) + 1
          /\ invocations'[Len(invocations')].event = Val(proc.event)
    /\ (Unbounded /\ proc'.pc = "idle") =>
          \A k \in DOMAIN notification_db.notifications :
             Dispatched(notification_db.notifications[k])

\* C35: an event that a handler emits while process_events is draining is
\* appended to the tail of the queue; it is dispatched in the same unbounded
\* drain, after every event that was queued when it was emitted and after the
\* remaining handlers of the event being handled, and never inside the handler
\* that emitted it.
C35_EmittedDuringDrain == []C35_AfterEarlierEvents /\ [][C35_EmittedAtTail]_vars

\* the third event of one unbounded drain is the NotificationSent of the
\* welcome: UserRegistered was handled, then the BookAdded that was queued
\* behind it
C35_Witness ==
    /\ Unbounded
    /\ proc.pc = "handlers"
    /\ proc.processed_count = 3
    /\ Val(proc.event).type = "NotificationSent"
    /\ \E p, q \in DOMAIN invocations :
          /\ p < q
          /\ invocations[p].event.type = "UserRegistered"
          /\ invocations[q].event.type = "BookAdded"
          /\ EnqueuedBefore(p, q)

\* ---------------------------------------------------------- derived state
TotalUsers == Get(analytics_db.metrics, "total_users", 0)
TotalReturns == Get(analytics_db.metrics, "total_returns", 0)

\* no process_events call is running and no event waits
Settled == proc.pc = "idle" /\ event_queue = <<>>

\* C36: on the initialized system, with all events emitted by the library's
\* operations, whenever process_events has returned and left the queue empty
\* the users the notification service knows are the library's users, and the
\* analytics service counts as many users as the library has, as many borrows
\* as there are borrowing records and as many returns as borrowings returned.
C36_DerivedStateAgrees ==
    Settled =>
       /\ DOMAIN notification_db.users = Users
       /\ TotalUsers = Cardinality(Users)
       /\ TotalBorrows = Cardinality(Borrowings)
       /\ TotalReturns = Cardinality(Borrowings \ OpenBorrowings)

\* the events of a registration, a borrowing and a return were all handled
C36_Witness ==
    /\ Settled
    /\ TotalUsers = 1
    /\ TotalBorrows = 1
    /\ TotalReturns = 1
    /\ Len(invocations) > 0

\* -- library calls made while events wait
\* one reader and one title: the caller adds, registers, lends and takes back
\* without waiting for the events to be processed, and processes them whenever
\* they like, all at once or one at a time
UnprocessedCaps ==
    [calls |-> MaxSystemCalls + 2, user |-> 1, book |-> 1, borrowing |-> 2]

CallAhead(r) ==
    /\ Calling
    /\ r.ret.status = "ok"
    /\ \A kind \in DOMAIN UnprocessedCaps \ {"calls"} :
          r.w.uuid_count[kind] <= UnprocessedCaps[kind]
    /\ SuccessfulCalls(r.w) <= UnprocessedCaps["calls"]
    /\ Becomes(r.w)
    /\ UNCHANGED <<proc, invocations>>

AddBookAhead ==
    \E copies \in {1, 2} :
       CallAhead(add_book_to_library(World, Isbns[1], "T", "A", copies))

RegisterUserAhead ==
    \E user_type \in UserTypeArgs :
       CallAhead(register_user(World, Emails[1], <<" ", "N">>, user_type))

BorrowBookAhead ==
    \E user_id \in Users, book_id \in Books :
       CallAhead(borrow_book(World, user_id, book_id))

ReturnBookAhead ==
    \E user_id \in Users, book_id \in Books :
       CallAhead(return_book(World, user_id, book_id))

UnprocessedNext ==
    \/ AddBookAhead
    \/ RegisterUserAhead
    \/ BorrowBookAhead
    \/ ReturnBookAhead
    \/ ProcessEvents
    \/ ProcessLoop
    \/ ProcessHandler

SpecUnprocessed == InitSystem /\ [][UnprocessedNext]_vars

\* C37: on the initialized system, with all events emitted by the library's
\* operations, the analytics service's total_returns is never more than its
\* total_borrows, in states in the middle of a drain too: the BookReturned
\* event of a borrowing is never queued before its BookBorrowed event.
C37_ReturnsWithinBorrows ==
    /\ TotalReturns <= TotalBorrows
    /\ \A j, k \in DOMAIN event_queue :
          (/\ event_queue[j].type = "BookReturned"
           /\ event_queue[k].type = "BookBorrowed"
           /\ event_queue[j].payload.borrowing_id = event_queue[k].payload.borrowing_id)
             => k < j

\* a bounded drain stopped between the two events of a loan: the borrowing is
\* counted and the BookReturned event of the loan still waits
C37_Witness ==
    /\ proc.pc = "idle"
    /\ TotalBorrows = 1
    /\ TotalReturns = 0
    /\ \E k \in DOMAIN event_queue : event_queue[k].type = "BookReturned"

\* -- the system initialized on a broker in use
Initialize ==
    /\ Calling
    /\ Becomes(initialize_event_driven_system(World))
    /\ UNCHANGED <<proc, invocations>>

ReinitNext ==
    \/ Initialize
    \/ RegisterEventHandler
    \/ EmitPlain
    \/ ProcessEvents
    \/ ProcessLoop
    \/ ProcessHandler

SpecReinit == Init /\ [][ReinitNext]_vars

\* ------------------------------------------------------ initialization claims
\* the registrations initialize makes on the module as imported
FirstWiring == initialize_event_driven_system(EmptyWorld).event_handlers

\* whatever the broker holds, initialize leaves the queue and the failure log
\* empty and the registrations those of a first initialization, changes no
\* store of a service and nothing a handler would change, and a second
\* initialize changes nothing more
C38_Rewired ==
    LET once == initialize_event_driven_system(World)
        twice == initialize_event_driven_system(once)
    IN /\ once.event_queue = <<>>
       /\ once.failed_events = <<>>
       /\ once.event_handlers = FirstWiring
       /\ \A event_type \in DOMAIN once.event_handlers :
             \A j, k \in DOMAIN once.event_handlers[event_type] :
                once.event_handlers[event_type][j] = once.event_handlers[event_type][k]
                   => j = k
       /\ once = [World EXCEPT !.event_queue = <<>>, !.failed_events = <<>>,
                               !.event_handlers = FirstWiring]
       /\ twice = once

\* the step that wires the system calls no handler
C38_NotDispatched ==
    (event_handlers # FirstWiring /\ event_handlers' = FirstWiring) =>
       /\ invocations' = invocations
       /\ processed_events' = processed_events
       /\ event_queue' = <<>>
       /\ failed_events' = <<>>

\* C38: initialize_event_driven_system resets the broker before it wires the
\* services: the events still queued and the FailedEvents recorded are
\* dropped without a handler being called, and initialize called twice in a
\* row leaves the registrations of one call, no handler registered twice.
C38_ResetBeforeWiring == []C38_Rewired /\ [][C38_NotDispatched]_vars

\* the system was initialized on a broker whose failing handler had failed:
\* the failure log is empty again
C38_Witness ==
    /\ event_handlers = FirstWiring
    /\ FailedInvocations # <<>>
    /\ failed_events = <<>>
    /\ event_queue = <<>>
    /\ Len(invocations) < uuid_count["event"]

\* ------------------------------------------------------- suspension, more
\* a suspended user who holds a book returns it: the call succeeds, closes the
\* one open borrowing of the book by the user, puts the copy back and emits
\* BookReturned for that borrowing, and the user stays suspended
C39_CanReturn ==
    \A user_id \in Suspended, book_id \in Books :
       Holds(user_id, book_id) =>
          LET r == return_book(World, user_id, book_id)
              bid == CHOOSE b \in OpenOf(user_id) \cap OpenOn(book_id) : TRUE
          IN /\ r.ret.status = "ok"
             /\ OpenOf(user_id) \cap OpenOn(book_id) = {bid}
             /\ ~IsOpen(r.w.library_db.borrowings[bid])
             /\ r.w.library_db.books[book_id].available_copies
                   = Available(book_id) + 1
             /\ EmitsOne(r, "BookReturned")
             /\ TheEvent(r).payload.borrowing_id = bid
             /\ TheEvent(r).payload.user_id = user_id
             /\ r.w.library_db.users[user_id].status = "suspended"

\* no step makes a suspended user active again
C39_NotReactivated ==
    \A user_id \in Suspended :
       /\ user_id \in DOMAIN library_db'.users
       /\ library_db'.users[user_id].status = "suspended"

\* C39: suspension stops borrowing and not returning: a suspended user with
\* an open borrowing can return the book, which closes the borrowing, adds 1
\* to the book's available_copies and emits BookReturned; and no operation of
\* the library or handler of a service sets a suspended user's status back to
\* active.
C39_SuspendedCanReturn == []C39_CanReturn /\ [][C39_NotReactivated]_vars

\* the audit log shows the suspension of the user before the return of their
\* book, and the user is still suspended
C39_Witness ==
    \E j, k \in DOMAIN audit_db.events :
       /\ j < k
       /\ audit_db.events[j].event_type = "UserSuspended"
       /\ audit_db.events[k].event_type = "BookReturned"
       /\ audit_db.events[j].payload.user_id = audit_db.events[k].payload.user_id
       /\ audit_db.events[j].payload.user_id \in Suspended
       /\ OpenOf(audit_db.events[j].payload.user_id) = {}

\* -- the library service with the teardown between runs
ClearAllSystemState ==
    /\ Calling
    /\ Becomes(clear_all_system_state(World))
    /\ invocations' = <<>>
    /\ UNCHANGED proc

IntegrityNext ==
    \/ ClearAllSystemState
    \/ LibraryNext

SpecIntegrity == Init /\ [][IntegrityNext]_vars

\* ------------------------------------------------------ referential integrity
\* C40: in every reachable state each borrowing record names a user and a
\* book of the library; so the records return_book and get_user_borrowings
\* find for any arguments lead to a stored user and a stored book.
C40_ReferentialIntegrity ==
    /\ \A bid \in Borrowings :
          /\ library_db.borrowings[bid].user_id \in Users
          /\ library_db.borrowings[bid].book_id \in Books
    /\ \A user_id \in UserIdArgs, book_id \in BookIdArgs :
          matching_borrowings(World, user_id, book_id) # {} =>
             /\ user_id \in Users
             /\ book_id \in Books
             /\ return_book(World, user_id, book_id).ret.status = "ok"
    /\ \A user_id \in UserIdArgs :
          /\ \A bid \in current_borrowings(World, user_id) :
                library_db.borrowings[bid].book_id \in Books
          /\ Cardinality(get_user_borrowings(World, user_id))
                <= Cardinality(current_borrowings(World, user_id))

\* the library was emptied and filled again: a borrowing made since refers to
\* a user and a book registered since
C40_Witness ==
    /\ uuid_count["borrowing"] = 2
    /\ \E bid \in Borrowings :
          /\ Borrowings = {bid}
          /\ Serial(bid) = 2
          /\ Serial(library_db.borrowings[bid].user_id) > 1
          /\ library_db.borrowings[bid].user_id \in Users

====
